---- MODULE Spec2Model ----
(***************************************************************************)
(* A model of the wyze-sdk client library: the property marshaling core    *)
(* (PropDef / DeviceProp), attribute extraction from raw bags, response    *)
(* envelope validation and the session/request behaviour of the clients.   *)
(*                                                                         *)
(* Python values are tagged records [t, v]; Python strings are sequences   *)
(* of one-character strings so that str(), int() and strtobool() can be    *)
(* computed the way the interpreter computes them.                         *)
(***************************************************************************)
EXTENDS Integers, Sequences, FiniteSets, TLC

VARIABLES
    prop,      \* the DeviceProp built by the last DeviceProp(...) call
    valres,    \* the outcome of the last PropDef.validate(...) call
    ext,       \* the outcome of the last attribute / property extraction
    resp,      \* the outcome of the last WyzeResponse.validate() call
    client,    \* the fields of the top-level Client object
    call,      \* the last public call made on the Client and what it did
    wire,      \* the outcome of the last read of DeviceProp.api_value
    rec,       \* the typed record built by the last parse of a raw bag
    vmap,      \* the outcome of the last decoding of a vacuum map blob
    away       \* the AwayModeGenerator and the position of its value property

vars == <<prop, valres, ext, resp, client, call, wire, rec, vmap, away>>

----------------------------------------------------------------------------
(* Python values                                                           *)

PyNone == [t |-> "none", v |-> 0]
PyBool(b) == [t |-> "bool", v |-> b]
PyInt(n) == [t |-> "int", v |-> n]
PyStr(s) == [t |-> "str", v |-> s]
\* a float with one decimal digit, held in tenths: 1.5 is PyFloat(15)
PyFloat(tenths) == [t |-> "float", v |-> tenths]
PyEmptyDict == [t |-> "dict", v |-> 0]

Ok(val) == [ok |-> TRUE, val |-> val, exc |-> "none"]
Raise(exc) == [ok |-> FALSE, val |-> PyNone, exc |-> exc]

\* isinstance(value, type); bool is a subclass of int
isinstance(value, type) ==
    CASE type = "bool" -> value.t = "bool"
      [] type = "int" -> value.t \in {"int", "bool"}
      [] type = "str" -> value.t = "str"
      [] type = "float" -> value.t = "float"
      [] type = "dict" -> value.t = "dict"
      [] OTHER -> FALSE

DigitChars == <<"0", "1", "2", "3", "4", "5", "6", "7", "8", "9">>

IsDigit(c) == \E i \in 1..10 : DigitChars[i] = c

DigitVal(c) == (CHOOSE i \in 1..10 : DigitChars[i] = c) - 1

RECURSIVE NatToStr(_)
NatToStr(n) ==
    IF n < 10 THEN <<DigitChars[n + 1]>>
    ELSE NatToStr(n \div 10) \o <<DigitChars[(n % 10) + 1]>>

\* str(value)
str(value) ==
    CASE value.t = "str" -> value.v
      [] value.t = "none" -> <<"N", "o", "n", "e">>
      [] value.t = "bool" ->
            IF value.v THEN <<"T", "r", "u", "e">> ELSE <<"F", "a", "l", "s", "e">>
      [] value.t = "int" ->
            IF value.v < 0 THEN <<"-">> \o NatToStr(-value.v) ELSE NatToStr(value.v)
      [] value.t = "float" ->
            IF value.v < 0
            THEN <<"-">> \o NatToStr((-value.v) \div 10) \o <<".">> \o NatToStr((-value.v) % 10)
            ELSE NatToStr(value.v \div 10) \o <<".">> \o NatToStr(value.v % 10)
      [] OTHER -> <<"{", "}">>

UpperChars == <<"A", "B", "C", "D", "E", "F", "G", "H", "I", "J", "K", "L", "M",
                "N", "O", "P", "Q", "R", "S", "T", "U", "V", "W", "X", "Y", "Z">>
LowerChars == <<"a", "b", "c", "d", "e", "f", "g", "h", "i", "j", "k", "l", "m",
                "n", "o", "p", "q", "r", "s", "t", "u", "v", "w", "x", "y", "z">>

LowerChar(c) ==
    IF \E i \in 1..26 : UpperChars[i] = c
    THEN LowerChars[CHOOSE i \in 1..26 : UpperChars[i] = c]
    ELSE c

\* str.lower()
lower(s) == [i \in 1..Len(s) |-> LowerChar(s[i])]

StrTrue == {<<"y">>, <<"y", "e", "s">>, <<"t">>, <<"t", "r", "u", "e">>, <<"o", "n">>, <<"1">>}
StrFalse == {<<"n">>, <<"n", "o">>, <<"f">>, <<"f", "a", "l", "s", "e">>, <<"o", "f", "f">>, <<"0">>}

\* distutils.util.strtobool(val): 1, 0 or ValueError
strtobool(val) ==
    IF lower(val) \in StrTrue THEN Ok(PyInt(1))
    ELSE IF lower(val) \in StrFalse THEN Ok(PyInt(0))
    ELSE Raise("ValueError")

RECURSIVE StripLeft(_)
StripLeft(s) == IF Len(s) > 0 /\ Head(s) = " " THEN StripLeft(Tail(s)) ELSE s

RECURSIVE StripRight(_)
StripRight(s) ==
    IF Len(s) > 0 /\ s[Len(s)] = " " THEN StripRight(SubSeq(s, 1, Len(s) - 1)) ELSE s

\* str.strip()
strip(s) == StripRight(StripLeft(s))

RECURSIVE DigitsToNat(_)
DigitsToNat(s) ==
    IF Len(s) = 0 THEN 0
    ELSE 10 * DigitsToNat(SubSeq(s, 1, Len(s) - 1)) + DigitVal(s[Len(s)])

AllDigits(s) == Len(s) > 0 /\ \A i \in 1..Len(s) : IsDigit(s[i])

\* int("...") : surrounding whitespace and one sign are accepted
IntOfStr(s) ==
    LET b == strip(s)
        signed == Len(b) > 0 /\ Head(b) \in {"+", "-"}
        digits == IF signed THEN Tail(b) ELSE b
    IN IF AllDigits(digits)
       THEN Ok(PyInt(IF signed /\ Head(b) = "-" THEN -DigitsToNat(digits) ELSE DigitsToNat(digits)))
       ELSE Raise("ValueError")

\* bool(x) for a number
bool_(value) ==
    CASE value.t = "bool" -> value.v
      [] value.t \in {"int", "float"} -> value.v # 0
      [] value.t = "str" -> Len(value.v) > 0
      [] OTHER -> FALSE

\* type(value): calling the semantic type on a value of another type
Construct(type, value) ==
    CASE type = "int" ->
            CASE value.t = "str" -> IntOfStr(value.v)
              [] value.t = "float" ->
                    Ok(PyInt(IF value.v < 0 THEN -((-value.v) \div 10) ELSE value.v \div 10))
              [] value.t = "bool" -> Ok(PyInt(IF value.v THEN 1 ELSE 0))
              [] value.t = "int" -> Ok(value)
              [] OTHER -> Raise("TypeError")
      [] type = "str" -> Ok(PyStr(str(value)))
      [] type = "dict" ->
            CASE value.t = "dict" -> Ok(value)
              [] value.t = "str" -> IF Len(value.v) = 0 THEN Ok(PyEmptyDict) ELSE Raise("ValueError")
              [] OTHER -> Raise("TypeError")
      [] OTHER -> Raise("TypeError")

\* bool(distutils.util.strtobool(str(value))) if type == bool else type(value)
Coerce(type, value) ==
    IF type = "bool"
    THEN LET r == strtobool(str(value))
         IN IF r.ok THEN Ok(PyBool(bool_(r.val))) ELSE r
    ELSE Construct(type, value)

\* the number a numeric value stands for, in tenths
Tenths(value) ==
    CASE value.t = "bool" -> IF value.v THEN 10 ELSE 0
      [] value.t = "int" -> 10 * value.v
      [] OTHER -> value.v

\* a == b in Python: True == 1 == 1.0, but "1" != 1
PyEq(a, b) ==
    IF a.t \in {"bool", "int", "float"} /\ b.t \in {"bool", "int", "float"}
    THEN Tenths(a) = Tenths(b)
    ELSE a = b

\* value in acceptable_values
PyIn(value, values) == \E a \in values : PyEq(value, a)

----------------------------------------------------------------------------
(* PropDef and the property definitions of the device families             *)

PropDef(pid, type, api_type, acceptable_values) ==
    [pid |-> pid, type |-> type, api_type |-> api_type,
     has_acceptable |-> acceptable_values # {}, acceptable_values |-> acceptable_values]

NoApiType == "none"

power_state == PropDef("P3", "bool", "int", {PyInt(0), PyInt(1)})
brightness == PropDef("P1501", "int", NoApiType, {PyInt(i) : i \in 0..100})
color == PropDef("P1507", "str", NoApiType, {})
control_light == PropDef("P1508", "int", NoApiType, {PyInt(1), PyInt(2), PyInt(3)})
lamp_with_music_type == PropDef("P1523", "int", "str", {})
lamp_with_music_auto_color == PropDef("P1525", "bool", "str", {PyStr(<<"0">>), PyStr(<<"1">>)})
open_notification == PropDef("P1306", "bool", NoApiType, {})
stage_io == PropDef("stage_io", "dict", "str", {})

PropDefs == {power_state, brightness, color, control_light, lamp_with_music_type,
             lamp_with_music_auto_color, open_notification, stage_io}

\* the properties class PropDef declares: pid, api_type and type
PropDef_properties == {"pid", "api_type", "type"}

\* PropDef.validate(value): "pass" or the exception that leaves the method
\* the end of validate, r being the value of the semantic type or the
\* exception of the coercion
PropDef_validate_coerced(definition, r) ==
    IF ~r.ok
    THEN IF r.exc = "TypeError" THEN "WyzeRequestError" ELSE r.exc
    ELSE IF ~definition.has_acceptable THEN "pass"
    ELSE IF PyIn(r.val, definition.acceptable_values) THEN "pass"
    \* the message of the error reads self.acceptable_values
    ELSE IF "acceptable_values" \in PropDef_properties THEN "WyzeRequestError"
    ELSE "AttributeError"

PropDef_validate(definition, value) ==
    PropDef_validate_coerced(definition, IF isinstance(value, definition.type) THEN Ok(value)
                                         ELSE Coerce(definition.type, value))

\* the value validate compares with acceptable_values, when coercion succeeds
ValidatedValue(definition, value) ==
    IF isinstance(value, definition.type) THEN Ok(value) ELSE Coerce(definition.type, value)

----------------------------------------------------------------------------
(* DeviceProp                                                              *)

\* DeviceProp.__init__(definition=..., value=...)
DeviceProp_init(definition, value) ==
    IF value # PyNone /\ ~isinstance(value, definition.type)
    THEN LET r == Coerce(definition.type, value)
         IN IF r.ok
            THEN [definition |-> definition, raw |-> value, value |-> r.val,
                  raised |-> "none", logged |-> FALSE]
            ELSE IF r.exc = "ValueError"
            \* except ValueError: a warning is logged and value is left as it was
            THEN [definition |-> definition, raw |-> value, value |-> value,
                  raised |-> "none", logged |-> TRUE]
            ELSE [definition |-> definition, raw |-> value, value |-> PyNone,
                  raised |-> r.exc, logged |-> FALSE]
    ELSE [definition |-> definition, raw |-> value, value |-> value,
          raised |-> "none", logged |-> FALSE]

\* DeviceProp.api_value of the DeviceProp p, the result of DeviceProp_init:
\* the wire value, or the exception that leaves the property
DeviceProp_api_value_StrOfBool(p) ==
    IF p.definition.api_type = NoApiType THEN Ok(p.value)
    ELSE IF p.definition.type = "bool" /\ p.definition.api_type = "int"
    THEN Construct("int", p.value)
    ELSE IF isinstance(p.value, p.definition.api_type) THEN Ok(p.value)
    ELSE LET r == Construct(p.definition.api_type, p.value)
         IN IF ~r.ok /\ r.exc = "ValueError" THEN Ok(PyNone) ELSE r

DeviceProp_api_value(p) ==
    IF p.definition.api_type = NoApiType THEN Ok(p.value)
    ELSE IF p.definition.type = "bool" /\ p.definition.api_type = "int"
    \* int(self.value)
    THEN Construct("int", p.value)
    ELSE IF p.definition.type = "bool" /\ p.definition.api_type = "str"
    \* str(int(self.value))
    THEN LET i == Construct("int", p.value)
         IN IF i.ok THEN Construct("str", i.val) ELSE i
    ELSE IF isinstance(p.value, p.definition.api_type) THEN Ok(p.value)
    \* api_type(self.value); a ValueError is logged and None is returned
    ELSE LET r == Construct(p.definition.api_type, p.value)
         IN IF ~r.ok /\ r.exc = "ValueError" THEN Ok(PyNone) ELSE r

----------------------------------------------------------------------------
(* Inputs of the marshaling core                                           *)

MaxRawInt == 2

RawInts == (-1..MaxRawInt) \cup {45, 100, 101, 150}

RawStrings == {<<>>, <<"0">>, <<"1">>, <<"2">>, <<"4", "5">>, <<"1", "5", "0">>,
               <<" ", "1", " ">>, <<"-", "1">>, <<"1", ".", "5">>,
               <<"t", "r", "u", "e">>, <<"f", "a", "l", "s", "e">>,
               <<"T", "r", "u", "e">>, <<"F", "A", "L", "S", "E">>,
               <<"y", "e", "s">>, <<"o", "f", "f">>, <<"a", "b", "c">>,
               <<"f", "f", "0", "0", "0", "0">>}

RawFloats == {0, 5, 10, 15, 450}

\* the primitives a backend response can carry for a property
WireValues ==
    {PyNone, PyBool(TRUE), PyBool(FALSE)}
        \cup {PyInt(i) : i \in RawInts}
        \cup {PyStr(s) : s \in RawStrings}
        \cup {PyFloat(f) : f \in RawFloats}

NoProp == [definition |-> power_state, raw |-> PyNone, value |-> PyNone,
           raised |-> "idle", logged |-> FALSE]
NoValidation == [definition |-> power_state, candidate |-> PyNone, outcome |-> "idle"]
NoExtraction == [op |-> "idle"]
NoResponse == [op |-> "idle"]
\* the token of a client that holds none
NoToken == 0

\* Client(): no token and no credentials; user_id, email, password, key_id
\* and api_key are TRUE when they are not None
NoClient ==
    [token |-> NoToken, refresh_token |-> NoToken, user_id |-> FALSE,
     email |-> FALSE, password |-> FALSE, key_id |-> FALSE, api_key |-> FALSE]
NoCall == [op |-> "idle"]
NoWire == [op |-> "idle"]
NoRecord == [op |-> "idle"]
NoMap == [op |-> "idle"]

\* An AwayModeGenerator whose value property has not been read: the class
\* attributes cursor_time and remain_time are None (api_service.py 268-269).
NoAway ==
    [pc |-> "idle", tz |-> 0, window |-> 0, cursor_time |-> PyNone,
     remain_time |-> PyNone, z |-> FALSE, arrayList |-> <<>>, value |-> <<>>]

Init ==
    /\ prop = NoProp
    /\ valres = NoValidation
    /\ ext = NoExtraction
    /\ resp = NoResponse
    /\ client = NoClient
    /\ call = NoCall
    /\ wire = NoWire
    /\ rec = NoRecord
    /\ vmap = NoMap
    /\ away = NoAway

\* a DeviceProp is built from a wire value
NewDeviceProp ==
    /\ \E d \in PropDefs, v \in WireValues : prop' = DeviceProp_init(d, v)
    /\ UNCHANGED <<valres, ext, resp, client, call, wire, rec, vmap, away>>

\* a candidate value is validated against a definition
Validate ==
    /\ \E d \in PropDefs, v \in WireValues :
          valres' = [definition |-> d, candidate |-> v, outcome |-> PropDef_validate(d, v)]
    /\ UNCHANGED <<prop, ext, resp, client, call, wire, rec, vmap, away>>

\* definitions whose wire type is str and whose acceptable values are
\* numbers or strings
lamp_with_music_music == PropDef("P1524", "int", "str", {PyInt(i) : i \in 0..100})
save_comfort_balance == PropDef("save_comfort_balance", "int", "str", {PyInt(i) : i \in 1..5})
temperature_unit == PropDef("temp_unit", "str", NoApiType, {PyStr(<<"F">>), PyStr(<<"C">>)})
lock_state == PropDef("switch_state", "bool", "int", {})

WirePropDefs == PropDefs \cup {lamp_with_music_music, save_comfort_balance,
                               temperature_unit, lock_state}

WireInputs == WireValues \cup {PyStr(<<"F">>), PyStr(<<"C">>)}

\* what api_value gives for the DeviceProp p
WireOf(p) ==
    [op |-> "api_value", definition |-> p.definition, raw |-> p.raw, value |-> p.value,
     api |-> DeviceProp_api_value(p)]

\* a DeviceProp is built from a value and its api_value is read
ApiValue ==
    /\ \E d \in WirePropDefs, v \in WireInputs :
          /\ DeviceProp_init(d, v).raised = "none"
          /\ wire' = WireOf(DeviceProp_init(d, v))
    /\ UNCHANGED <<prop, valres, ext, resp, client, call, rec, vmap, away>>

NextWire == ApiValue

SpecWire == Init /\ [][NextWire]_vars

NextProp == NewDeviceProp

SpecProp == Init /\ [][NextProp]_vars

NextValidate == Validate

SpecValidate == Init /\ [][NextValidate]_vars

----------------------------------------------------------------------------
(* Attribute and property extraction from a raw bag                        *)

(* A raw bag is the dict a backend response is parsed into.  top holds its *)
(* scalar top-level keys; each nested container is either absent or        *)
(* present: property_list and data.property_list are lists of              *)
(* {pid, value} items, props, device_params and device_setting are dicts.  *)

MaxList == 2

BagValues == {PyInt(0), PyInt(1)}

\* dicts that hold the looked-up key P3, another key, or nothing
BagDicts ==
    {<<>>} \cup {[k \in {"P5"} |-> PyInt(1)]} \cup {[k \in {"P3"} |-> v] : v \in BagValues}

BagItems == {[pid |-> "P3", value |-> v] : v \in BagValues} \cup {[pid |-> "P5", value |-> PyInt(1)]}

BagLists == UNION {[1..n -> BagItems] : n \in 0..MaxList}

Absent == [present |-> FALSE, items |-> <<>>]
Present(items) == [present |-> TRUE, items |-> items]

Bags ==
    [top : BagDicts,
     property_list : {Absent} \cup {Present(l) : l \in BagLists},
     data_property_list : {Absent} \cup {Present(l) : l \in BagLists},
     props : {Absent} \cup {Present(d) : d \in BagDicts},
     device_params : {Absent} \cup {Present(d) : d \in BagDicts},
     device_setting : {Absent} \cup {Present(d) : d \in BagDicts}]

\* dict.pop(name)
pop(dict, name) == [k \in (DOMAIN dict) \ {name} |-> dict[k]]

\* for property in list: if name == property['pid']: return property['value']
RECURSIVE scan(_, _)
scan(name, list) ==
    IF Len(list) = 0 THEN [found |-> FALSE, value |-> PyNone]
    ELSE IF Head(list).pid = name THEN [found |-> TRUE, value |-> Head(list).value]
    ELSE scan(name, Tail(list))

\* JsonObject._extract_attribute(name, others): the value returned (None
\* when the method falls off its end) and the bag as the call leaves it
extract_attribute(name, others) ==
    IF name \in DOMAIN others.top
    THEN [value |-> others.top[name], others |-> [others EXCEPT !.top = pop(@, name)]]
    ELSE IF others.property_list.present
    THEN [value |-> scan(name, others.property_list.items).value, others |-> others]
    ELSE IF others.data_property_list.present
    THEN [value |-> scan(name, others.data_property_list.items).value, others |-> others]
    ELSE IF others.device_params.present /\ name \in DOMAIN others.device_params.items
    \* the recursive call finds name at the top level of device_params
    THEN [value |-> others.device_params.items[name],
          others |-> [others EXCEPT !.device_params.items = pop(@, name)]]
    ELSE IF others.device_setting.present /\ name \in DOMAIN others.device_setting.items
    THEN [value |-> others.device_setting.items[name],
          others |-> [others EXCEPT !.device_setting.items = pop(@, name)]]
    ELSE [value |-> PyNone, others |-> others]

NoneProp == [found |-> FALSE, raw |-> PyNone, value |-> PyNone, raised |-> "none"]

FoundProp(prop_def, raw) ==
    LET p == DeviceProp_init(prop_def, raw)
    IN [found |-> TRUE, raw |-> raw, value |-> p.value, raised |-> p.raised]

\* the else branch of _extract_property: others is a list of {pid, value}
extract_property_list(prop_def, list) ==
    LET r == scan(prop_def.pid, list)
    IN IF r.found THEN FoundProp(prop_def, r.value) ELSE NoneProp

\* the loop over others.items() of _extract_property
extract_property_items(prop_def, dict) ==
    IF prop_def.pid \in DOMAIN dict THEN FoundProp(prop_def, dict[prop_def.pid]) ELSE NoneProp

\* Device._extract_property(prop_def, others) for a dict others: the
\* DeviceProp returned, or None
extract_property(prop_def, others) ==
    IF others.data_property_list.present
    THEN extract_property_list(prop_def, others.data_property_list.items)
    ELSE IF others.props.present
    THEN extract_property_items(prop_def, others.props.items)
    ELSE IF others.property_list.present
    THEN extract_property_list(prop_def, others.property_list.items)
    ELSE extract_property_items(prop_def, others.top)

\* SwitchableMixin.is_on: switch_state is the DeviceProp that the
\* constructor extracted, or None
SwitchableMixin_is_on(switch_state) ==
    IF ~switch_state.found THEN PyBool(FALSE) ELSE switch_state.value

\* an accessor that was not read
NotRead == [t |-> "not read", v |-> 0]

\* a bag arrives and P3 is about to be looked up in it
InitExtract ==
    /\ prop = NoProp
    /\ valres = NoValidation
    /\ \E b \in Bags :
          ext = [op |-> "input", name |-> "P3", bag |-> b, others |-> b,
                 value |-> PyNone, found |-> FALSE, raised |-> "none",
                 semantic |-> PyNone, is_on |-> NotRead]
    /\ resp = NoResponse
    /\ client = NoClient
    /\ call = NoCall
    /\ wire = NoWire
    /\ rec = NoRecord
    /\ vmap = NoMap
    /\ away = NoAway

ExtractAttribute ==
    /\ ext.op = "input"
    /\ LET r == extract_attribute(ext.name, ext.bag)
       IN ext' = [ext EXCEPT !.op = "_extract_attribute", !.value = r.value,
                             !.found = r.value # PyNone, !.others = r.others]
    /\ UNCHANGED <<prop, valres, resp, client, call, wire, rec, vmap, away>>

ExtractProperty ==
    /\ ext.op = "input"
    /\ LET r == extract_property(power_state, ext.bag)
       IN ext' = [ext EXCEPT !.op = "_extract_property", !.value = r.raw,
                             !.found = r.found, !.raised = r.raised,
                             !.semantic = r.value]
    /\ UNCHANGED <<prop, valres, resp, client, call, wire, rec, vmap, away>>

\* is_on of the record whose switch_state was extracted is read
IsOn ==
    /\ ext.op = "_extract_property"
    /\ ext.raised = "none"
    /\ ext' = [ext EXCEPT !.op = "is_on",
                          !.is_on = SwitchableMixin_is_on([found |-> ext.found, value |-> ext.semantic])]
    /\ UNCHANGED <<prop, valres, resp, client, call, wire, rec, vmap, away>>

NextExtract == ExtractAttribute \/ ExtractProperty \/ IsOn

SpecExtract == InitExtract /\ [][NextExtract]_vars

\* the five lookup locations of the extraction chain, in priority order
Locations == 1..5

HasKey(bag, loc, name) ==
    CASE loc = 1 -> name \in DOMAIN bag.top
      [] loc = 2 -> bag.property_list.present /\ scan(name, bag.property_list.items).found
      [] loc = 3 -> bag.data_property_list.present /\ scan(name, bag.data_property_list.items).found
      [] loc = 4 -> bag.device_params.present /\ name \in DOMAIN bag.device_params.items
      [] OTHER -> bag.device_setting.present /\ name \in DOMAIN bag.device_setting.items

ValueAt(bag, loc, name) ==
    CASE loc = 1 -> bag.top[name]
      [] loc = 2 -> scan(name, bag.property_list.items).value
      [] loc = 3 -> scan(name, bag.data_property_list.items).value
      [] loc = 4 -> bag.device_params.items[name]
      [] OTHER -> bag.device_setting.items[name]

\* C4: when the bag holds the key at two of the five locations with
\* different values, extraction returns the value at the higher-priority one.
C4_HigherPriorityWins ==
    ext.op \in {"_extract_attribute", "_extract_property"} =>
        \A hi, lo \in Locations :
            (/\ hi < lo
             /\ {l \in Locations : HasKey(ext.bag, l, ext.name)} = {hi, lo}
             /\ ValueAt(ext.bag, hi, ext.name) # ValueAt(ext.bag, lo, ext.name))
            => ext.value = ValueAt(ext.bag, hi, ext.name)

----------------------------------------------------------------------------
(* Response envelope validation                                            *)

HttpOk == 200

StatusCodes == {HttpOk, 401, 500}

\* the JSON body of a response: an empty body, bytes, or an envelope dict
\* whose code field is absent or carries a primitive
NoCode == [t |-> "absent", v |-> 0]

EnvelopeCodes == {NoCode} \cup WireValues \cup {PyInt(1001), PyInt(2001), PyStr(<<"2", "0", "0", "1">>)}

ResponseBodies ==
    {[kind |-> "empty", code |-> NoCode], [kind |-> "bytes", code |-> NoCode]}
        \cup {[kind |-> "dict", code |-> c] : c \in EnvelopeCodes}

Responses == [cls : {"WyzeResponse", "FordResponse"}, status_code : StatusCodes, data : ResponseBodies]

\* int(self.data.get("code", 1))
IntCode(data) ==
    IF data.code = NoCode THEN Ok(PyInt(1))
    ELSE IF data.code.t = "int" THEN Ok(data.code)
    ELSE Construct("int", data.code)

\* the comparison of the code with 1, c being what int(code) gave
WyzeResponse_validate_code_AnyPositiveCode(response, c) ==
    IF ~c.ok THEN [outcome |-> c.exc, carried |-> response]
    ELSE IF c.val.v >= 1 THEN [outcome |-> "self", carried |-> response]
    ELSE [outcome |-> "WyzeApiError", carried |-> response]

WyzeResponse_validate_code(response, c) ==
    IF ~c.ok THEN [outcome |-> c.exc, carried |-> response]
    ELSE IF c.val = PyInt(1) THEN [outcome |-> "self", carried |-> response]
    ELSE [outcome |-> "WyzeApiError", carried |-> response]

\* WyzeResponse.validate() and FordResponse.validate(): "self", or the
\* exception raised; a WyzeApiError carries the response
WyzeResponse_validate(response) ==
    IF response.status_code = HttpOk /\ response.data.kind # "empty"
    THEN IF response.data.kind = "bytes" THEN [outcome |-> "self", carried |-> response]
         ELSE WyzeResponse_validate_code(response, IntCode(response.data))
    ELSE [outcome |-> "WyzeApiError", carried |-> response]

\* the message validate() gives to the WyzeApiError it raises: one text for
\* each response class, whatever the code and the msg of the envelope
NoMessage == ""
WyzeResponse_validate_message(response, outcome) ==
    IF outcome # "WyzeApiError" THEN NoMessage
    ELSE IF response.cls = "FordResponse" THEN "The request to the Wyze Ford API failed."
    ELSE "The request to the Wyze API failed."

\* a response arrives and is validated
ValidateResponse ==
    /\ \E r \in Responses :
          LET v == WyzeResponse_validate(r)
          IN resp' = [op |-> "validate", response |-> r, outcome |-> v.outcome, carried |-> v.carried,
                      message |-> WyzeResponse_validate_message(r, v.outcome)]
    /\ UNCHANGED <<prop, valres, ext, client, call, wire, rec, vmap, away>>

NextResponse == ValidateResponse

SpecResponse == Init /\ [][NextResponse]_vars

----------------------------------------------------------------------------
(* Service clients: sending a request                                      *)

\* what can come back for one request: a success envelope, an expired
\* token envelope, an HTTP 401, an envelope whose code is not a number, or
\* no response at all (the transport raised)
ReplyKinds == {"ok", "expired", "denied", "garbled", "timeout"}

ReplyResponse(kind) ==
    CASE kind = "ok" ->
            [cls |-> "WyzeResponse", status_code |-> HttpOk, data |-> [kind |-> "dict", code |-> PyInt(1)]]
      [] kind = "expired" ->
            [cls |-> "WyzeResponse", status_code |-> HttpOk, data |-> [kind |-> "dict", code |-> PyInt(2001)]]
      [] kind = "denied" ->
            [cls |-> "WyzeResponse", status_code |-> 401, data |-> [kind |-> "dict", code |-> NoCode]]
      [] OTHER ->
            [cls |-> "WyzeResponse", status_code |-> HttpOk,
             data |-> [kind |-> "dict", code |-> PyStr(<<"a", "b", "c">>)]]

SuppressedExceptions == {"HTTPError", "RequestException", "ValueError"}

\* the end of the with block of _do_request, v being what validate() gave:
\* the validated response is returned, an exception of the suppressed kinds
\* ends the block and None is returned, any other exception is raised
do_request_validated(v) ==
    IF v.outcome = "self" THEN [returned |-> "response", raised |-> "none"]
    ELSE IF v.outcome \in SuppressedExceptions THEN [returned |-> "None", raised |-> "none"]
    ELSE [returned |-> "None", raised |-> v.outcome]

\* BaseServiceClient._do_request
do_request(reply) ==
    IF reply = "timeout"
    THEN IF "RequestException" \in SuppressedExceptions
         THEN [returned |-> "None", raised |-> "none"]
         ELSE [returned |-> "None", raised |-> "RequestException"]
    ELSE do_request_validated(WyzeResponse_validate(ReplyResponse(reply)))

\* a request as a service client builds it: the payload carries the token
\* the service client was created with
Request_WithoutToken(endpoint, token, reply, raised) ==
    [endpoint |-> endpoint, access_token |-> NoToken, reply |-> reply, raised |-> raised]

Request(endpoint, token, reply, raised) ==
    [endpoint |-> endpoint, access_token |-> token, reply |-> reply, raised |-> raised]

\* one request of a handler: its endpoint and the exception the handler
\* raises when it reads the result and the result is None ("none" when the
\* handler returns the result as it is)
Step(endpoint, on_none) == [endpoint |-> endpoint, on_none |-> on_none]

(* The requests a handler sends, one after the other, with a service       *)
(* client holding token.  An exception raised by a request, or raised when *)
(* the handler reads a key of a None result, leaves the handler.           *)
RECURSIVE send(_, _, _)

\* the first request of plan was sent and r came back
RECURSIVE sent_ResendAfterError(_, _, _, _)
sent_ResendAfterError(plan, replies, token, r) ==
    IF r.raised # "none"
    THEN [requests |-> <<Request(Head(plan).endpoint, token, Head(replies), r.raised),
                         Request(Head(plan).endpoint, token, Head(replies), r.raised)>>,
          error |-> r.raised, returned |-> "None"]
    ELSE IF r.returned = "None" /\ Head(plan).on_none # "none"
    THEN [requests |-> <<Request(Head(plan).endpoint, token, Head(replies), r.raised)>>,
          error |-> Head(plan).on_none, returned |-> "None"]
    ELSE IF Len(plan) = 1
    THEN [requests |-> <<Request(Head(plan).endpoint, token, Head(replies), r.raised)>>,
          error |-> "none", returned |-> r.returned]
    ELSE [send(Tail(plan), Tail(replies), token)
            EXCEPT !.requests = <<Request(Head(plan).endpoint, token, Head(replies), r.raised)>> \o @]

RECURSIVE sent(_, _, _, _)
sent(plan, replies, token, r) ==
    IF r.raised # "none"
    THEN [requests |-> <<Request(Head(plan).endpoint, token, Head(replies), r.raised)>>,
          error |-> r.raised, returned |-> "None"]
    ELSE IF r.returned = "None" /\ Head(plan).on_none # "none"
    THEN [requests |-> <<Request(Head(plan).endpoint, token, Head(replies), r.raised)>>,
          error |-> Head(plan).on_none, returned |-> "None"]
    ELSE IF Len(plan) = 1
    THEN [requests |-> <<Request(Head(plan).endpoint, token, Head(replies), r.raised)>>,
          error |-> "none", returned |-> r.returned]
    ELSE [send(Tail(plan), Tail(replies), token)
            EXCEPT !.requests = <<Request(Head(plan).endpoint, token, Head(replies), r.raised)>> \o @]

send(plan, replies, token) ==
    IF Len(plan) = 0 THEN [requests |-> <<>>, error |-> "none", returned |-> "None"]
    ELSE sent(plan, replies, token, do_request(Head(replies)))

\* a request that is not answered by a success ends its call (the
\* exception leaves the handler, or the handler reads the None result), so
\* the replies drawn after it are never read and are fixed
Canonical(replies) ==
    \A i \in 1..Len(replies) : \A j \in 1..Len(replies) :
        (i < j /\ replies[i] # "ok") => replies[j] = "ok"

\* the longest handler sends three requests
MaxPlan == 3

Replies == {r \in [1..MaxPlan -> ReplyKinds] : Canonical(r)}

\* the replies of a backend that answers every request
AllOk == [i \in 1..MaxPlan |-> "ok"]

\* the replies to draw for a call that sends n requests when every request
\* is answered: the replies past the n-th are never read and are fixed
Drawn(n) == {r \in Replies : \A i \in 1..MaxPlan : i > n => r[i] = "ok"}

----------------------------------------------------------------------------
(* The top-level Client                                                    *)

MaxToken == 2

\* the access and refresh tokens the backend can issue
Tokens == 1..MaxToken

\* the payload of a login or refresh response
Sessions == [access_token : Tokens, refresh_token : Tokens]

\* Client._update_session(access_token=..., refresh_token=..., user_id=...)
Client_update_session_KeepRefreshToken(c, access_token, refresh_token, user_id) ==
    [c EXCEPT !.token = access_token, !.user_id = IF user_id THEN TRUE ELSE @]

Client_update_session(c, access_token, refresh_token, user_id) ==
    [c EXCEPT !.token = access_token, !.refresh_token = refresh_token,
              !.user_id = IF user_id THEN TRUE ELSE @]

Result(c, x) == [client |-> c, error |-> x.error, requests |-> x.requests, returned |-> x.returned]

Raised(c, error) == [client |-> c, error |-> error, requests |-> <<>>, returned |-> "None"]

\* AuthServiceClient.user_login: the first response carries an access
\* token, or offers TOTP, or offers SMS only
LoginOffers == {"tokens", "totp", "sms"}

AuthServiceClient_user_login_NoFinalLogin(offer, replies, token) ==
    send(CASE offer = "tokens" -> <<Step("/api/user/login", "TypeError")>>
           [] offer = "totp" -> <<Step("/api/user/login", "TypeError")>>
           [] OTHER -> <<Step("/api/user/login", "TypeError"), Step("/user/login/sendSmsCode", "TypeError")>>,
         replies, token)

AuthServiceClient_user_login(offer, replies, token) ==
    send(CASE offer = "tokens" -> <<Step("/api/user/login", "TypeError")>>
           [] offer = "totp" -> <<Step("/api/user/login", "TypeError"), Step("/user/login", "TypeError")>>
           [] OTHER -> <<Step("/api/user/login", "TypeError"), Step("/user/login/sendSmsCode", "TypeError"),
                         Step("/user/login", "TypeError")>>,
         replies, token)

\* the arguments of login(): TRUE for the ones that are given
LoginArgs ==
    {[email |-> FALSE, password |-> FALSE, key_id |-> FALSE, api_key |-> FALSE],
     [email |-> TRUE, password |-> FALSE, key_id |-> FALSE, api_key |-> FALSE],
     [email |-> TRUE, password |-> TRUE, key_id |-> FALSE, api_key |-> FALSE],
     [email |-> TRUE, password |-> TRUE, key_id |-> TRUE, api_key |-> TRUE]}

\* the end of login, x being what user_login gave: the session is updated
\* from the response
Client_login_response(c, session, x) ==
    IF x.error # "none" THEN Result(c, x)
    ELSE Result(Client_update_session(c, session.access_token, session.refresh_token, TRUE), x)

\* Client.login(email, password, key_id, api_key)
Client_login(c, args, offer, replies, session) ==
    IF c.token # NoToken THEN Raised(c, "WyzeClientConfigurationError")
    ELSE LET c1 == [c EXCEPT !.email = @ \/ args.email, !.password = @ \/ args.password,
                             !.key_id = @ \/ args.key_id, !.api_key = @ \/ args.api_key]
         IN IF ~c1.email \/ ~c1.password THEN Raised(c1, "WyzeClientConfigurationError")
            ELSE IF ~c1.key_id \/ ~c1.api_key THEN Raised(c1, "WyzeClientConfigurationError")
            ELSE Client_login_response(c1, session,
                                       AuthServiceClient_user_login(offer, replies, c1.token))

\* the end of refresh_token, x being what the API client gave
Client_refresh_token_response(c, session, x) ==
    IF x.error # "none" THEN Result(c, x)
    ELSE Result(Client_update_session(c, session.access_token, session.refresh_token, FALSE), x)

\* Client.refresh_token()
Client_refresh_token(c, replies, session) ==
    IF c.refresh_token = NoToken THEN Raised(c, "WyzeClientConfigurationError")
    ELSE Client_refresh_token_response(
            c, session, send(<<Step("/app/user/refresh_token", "TypeError")>>, replies, c.token))

\* BaseClient.__init__(token=...): the device clients need a token
BaseClient_init_AnyToken(token) == "none"

BaseClient_init(token) ==
    IF token = NoToken THEN "WyzeClientConfigurationError" ELSE "none"

----------------------------------------------------------------------------
(* Device clients                                                          *)

(* The device_model argument of a call, as its membership in the model     *)
(* lists of DeviceModels that the handlers test: a white bulb, a color     *)
(* bulb, a light strip and a Light Strip Pro, and a light strip that is    *)
(* not listed with the color bulbs.                                        *)
DeviceModelArgs ==
    {[mesh |-> FALSE, strip |-> FALSE, pro |-> FALSE],
     [mesh |-> TRUE, strip |-> FALSE, pro |-> FALSE],
     [mesh |-> TRUE, strip |-> TRUE, pro |-> FALSE],
     [mesh |-> TRUE, strip |-> TRUE, pro |-> TRUE],
     [mesh |-> FALSE, strip |-> TRUE, pro |-> FALSE]}

\* device_model in DeviceModels.MESH_BULB
in_MESH_BULB_Always(device_model) == TRUE

in_MESH_BULB(device_model) == device_model.mesh

\* device_model in DeviceModels.LIGHT_STRIP
in_LIGHT_STRIP(device_model) == device_model.strip

\* device_model in DeviceModels.LIGHT_STRIP_PRO
in_LIGHT_STRIP_PRO(device_model) == device_model.pro

LIGHT_STRIP_PRO_SUBSECTION_COUNT == 16

\* ApiServiceClient.set_device_property_list(mac=..., model=..., props=...),
\* named by its method: one request
ApiServiceClient_set_device_property_list == Step("set_device_property_list", "none")

\* FordServiceClient.add_password(uuid=..., password=..., ...), named by its
\* method: one request
FordServiceClient_add_password == Step("add_password", "none")

\* ApiServiceClient.run_action_list(actions=...): the prop of an action is
\* read as one DeviceProp; a list of props, or None, has no definition
\* attribute
ApiServiceClient_run_action_list(prop_is_deviceprop, replies, token) ==
    IF ~prop_is_deviceprop THEN [requests |-> <<>>, error |-> "AttributeError", returned |-> "None"]
    ELSE send(<<Step("/app/v2/auto/run_action_list", "none")>>, replies, token)

BrightnessArgs == {PyInt(-1), PyInt(45), PyInt(100), PyInt(150), PyStr(<<"4", "5">>)}

\* the end of set_brightness, v being what prop_def.validate(brightness) gave
BulbsClient_set_brightness_validated(c, device_model, replies, v) ==
    IF v # "pass" THEN Raised(c, v)
    ELSE IF in_MESH_BULB(device_model)
    THEN Result(c, ApiServiceClient_run_action_list(TRUE, replies, c.token))
    ELSE Result(c, send(<<ApiServiceClient_set_device_property_list>>, replies, c.token))

\* BulbsClient.set_brightness(device_mac, device_model, brightness)
BulbsClient_set_brightness(c, device_model, value, replies) ==
    IF BaseClient_init(c.token) # "none" THEN Raised(c, BaseClient_init(c.token))
    ELSE BulbsClient_set_brightness_validated(c, device_model, replies,
                                              PropDef_validate(brightness, value))

\* the color argument: one color string, or a list of so many colors
ColorArgs == {[list |-> FALSE, len |-> 1],
              [list |-> TRUE, len |-> LIGHT_STRIP_PRO_SUBSECTION_COUNT],
              [list |-> TRUE, len |-> 3]}

\* BulbsClient.set_color(device_mac, device_model, color)
BulbsClient_set_color(c, device_model, colors, replies) ==
    IF BaseClient_init(c.token) # "none" THEN Raised(c, BaseClient_init(c.token))
    ELSE IF ~in_MESH_BULB(device_model) THEN Raised(c, "WyzeFeatureNotSupportedError")
    ELSE IF colors.list /\ ~in_LIGHT_STRIP_PRO(device_model)
    THEN Raised(c, "WyzeFeatureNotSupportedError")
    ELSE IF colors.list /\ colors.len # LIGHT_STRIP_PRO_SUBSECTION_COUNT
    THEN Raised(c, "WyzeRequestError")
    \* every color is a str, which the color definition accepts; _prop is
    \* a list for a light strip, None for a list of colors on another
    \* device, and one DeviceProp for one color on a color bulb
    ELSE Result(c, ApiServiceClient_run_action_list(~in_LIGHT_STRIP(device_model) /\ ~colors.list,
                                                    replies, c.token))

\* BulbsClient.set_effect(device_mac, device_model, effect)
BulbsClient_set_effect(c, device_model, replies) ==
    IF BaseClient_init(c.token) # "none" THEN Raised(c, BaseClient_init(c.token))
    ELSE IF ~in_LIGHT_STRIP(device_model) THEN Raised(c, "WyzeFeatureNotSupportedError")
    \* _prop is the list made by effect.to_plist()
    ELSE Result(c, ApiServiceClient_run_action_list(FALSE, replies, c.token))

\* BulbsClient.info(device_mac): found and mesh say whether the device list
\* holds the mac and whether its product_type is MeshLight
BulbsClient_info(c, found, mesh, replies) ==
    IF BaseClient_init(c.token) # "none" THEN Raised(c, BaseClient_init(c.token))
    ELSE Result(c, send(<<Step("/app/v2/home_page/get_object_list", "TypeError")>>
                        \o (IF found /\ mesh THEN <<Step("/app/device/get_device_info", "AttributeError")>> ELSE <<>>)
                        \o (IF found THEN <<Step("/app/v2/device/get_property_list", "TypeError")>> ELSE <<>>),
                        replies, c.token))

MinEventLimit == 1
MaxEventLimit == 20

EventLimits == {0, 1, 20, 21}
EventOrders == {0, 1, 2, 3}

\* EventsClient.list(limit=..., order_by=...) over ApiServiceClient.get_event_list
ApiServiceClient_get_event_list(c, limit, order_by, replies) ==
    IF BaseClient_init(c.token) # "none" THEN Raised(c, BaseClient_init(c.token))
    ELSE IF limit < MinEventLimit \/ limit > MaxEventLimit THEN Raised(c, "WyzeRequestError")
    ELSE IF order_by \notin {1, 2} THEN Raised(c, "WyzeRequestError")
    ELSE Result(c, send(<<Step("/app/v2/device/get_event_list", "AttributeError")>>, replies, c.token))

AccessCodes == {PyNone, PyStr(<<" ", " ">>), PyStr(<<"1", "2", "3">>),
                PyStr(<<"1", "2", "3", "4">>),
                PyStr(<<"1", "2", "3", "4", "5", "6", "7", "8", "9">>),
                PyStr(<<"1", "2", "a", "4">>), PyStr(<<"1", "2", "3", "4", "\n">>)}

\* re.match('\d{4,8}$', access_code): 4 to 8 digits, then the end of the
\* string or its final newline
MatchesAccessCode(chars) ==
    LET body == IF Len(chars) > 0 /\ chars[Len(chars)] = "\n"
                THEN SubSeq(chars, 1, Len(chars) - 1) ELSE chars
    IN AllDigits(body) /\ Len(body) >= 4 /\ Len(body) <= 8

IsBlank(chars) == \A i \in 1..Len(chars) : chars[i] \in {" ", "\n"}

\* LocksClient._validate_access_code(access_code)
LocksClient_validate_access_code(access_code) ==
    IF access_code = PyNone \/ IsBlank(access_code.v) THEN "WyzeRequestError"
    ELSE IF ~MatchesAccessCode(access_code.v) THEN "WyzeRequestError"
    ELSE "none"

Permissions == {"None", "ALWAYS", "RECURRING"}

\* LocksClient.create_access_code(device_mac, access_code, name, permission, periodicity)
LocksClient_create_access_code(c, access_code, permission, periodicity, replies) ==
    IF BaseClient_init(c.token) # "none" THEN Raised(c, BaseClient_init(c.token))
    ELSE IF LocksClient_validate_access_code(access_code) # "none"
    THEN Raised(c, "WyzeRequestError")
    \* permission.type is read before permission is compared with None
    ELSE IF permission = "None" THEN Raised(c, "AttributeError")
    ELSE IF permission = "RECURRING" /\ ~periodicity THEN Raised(c, "WyzeRequestError")
    ELSE Result(c, send(<<Step("/openapi/v1/crypt_secret", "TypeError"),
                          FordServiceClient_add_password>>, replies, c.token))

----------------------------------------------------------------------------
(* A client and the calls made on it                                       *)

\* a payload for the calls that read none
NoSession == [access_token |-> 1, refresh_token |-> 1]

\* Client(token=..., refresh_token=..., email=..., ...): a constructor
\* that is given an email and no token logs in before it returns
InitClient ==
    /\ prop = NoProp
    /\ valres = NoValidation
    /\ ext = NoExtraction
    /\ resp = NoResponse
    /\ call = NoCall
    /\ wire = NoWire
    /\ rec = NoRecord
    /\ vmap = NoMap
    /\ away = NoAway
    /\ \E token \in {NoToken, 1} : \E refresh_token \in {NoToken, 1} :
       \E credentials \in BOOLEAN :
            /\ token # NoToken \/ ~credentials
            \* a refresh token is given together with a token
            /\ refresh_token # NoToken => token # NoToken
            /\ client = [token |-> token, refresh_token |-> refresh_token, user_id |-> FALSE,
                         email |-> credentials, password |-> credentials,
                         key_id |-> credentials, api_key |-> credentials]

\* the call op(args) returned or raised: r is what the handler computed
Called(op, args, r) ==
    /\ client' = r.client
    /\ call' = [op |-> op, args |-> args, error |-> r.error,
                requests |-> r.requests, returned |-> r.returned]
    /\ UNCHANGED <<prop, valres, ext, resp, wire, rec, vmap, away>>

\* an input that the call did not read is drawn once
LoginCalled(args, offer, session, r) ==
    /\ r.requests = <<>> => offer = "tokens"
    /\ r.error # "none" => session = NoSession
    /\ Called("login", args @@ [offer |-> offer, session |-> session], r)

Login ==
    \E args \in LoginArgs : \E offer \in LoginOffers :
    \E replies \in Drawn(Len(Client_login(client, args, offer, AllOk, NoSession).requests)) :
    \E session \in Sessions :
        LoginCalled(args, offer, session, Client_login(client, args, offer, replies, session))

RefreshTokenCalled(session, r) ==
    /\ r.error # "none" => session = NoSession
    /\ Called("refresh_token", [session |-> session], r)

RefreshToken ==
    \E replies \in Drawn(Len(Client_refresh_token(client, AllOk, NoSession).requests)) :
    \E session \in Sessions :
        RefreshTokenCalled(session, Client_refresh_token(client, replies, session))

SetBrightness ==
    \E device_model \in DeviceModelArgs : \E value \in BrightnessArgs :
    \E replies \in Drawn(Len(BulbsClient_set_brightness(client, device_model, value, AllOk).requests)) :
        Called("set_brightness", [device_model |-> device_model, brightness |-> value],
               BulbsClient_set_brightness(client, device_model, value, replies))

SetColor ==
    \E device_model \in DeviceModelArgs : \E colors \in ColorArgs :
    \E replies \in Drawn(Len(BulbsClient_set_color(client, device_model, colors, AllOk).requests)) :
        Called("set_color", [device_model |-> device_model, color |-> colors],
               BulbsClient_set_color(client, device_model, colors, replies))

SetEffect ==
    \E device_model \in DeviceModelArgs :
    \E replies \in Drawn(Len(BulbsClient_set_effect(client, device_model, AllOk).requests)) :
        Called("set_effect", [device_model |-> device_model],
               BulbsClient_set_effect(client, device_model, replies))

Info ==
    \E found \in BOOLEAN : \E mesh \in {m \in BOOLEAN : m => found} :
    \E replies \in Drawn(Len(BulbsClient_info(client, found, mesh, AllOk).requests)) :
        Called("info", [found |-> found, mesh |-> mesh],
               BulbsClient_info(client, found, mesh, replies))

ListEvents ==
    \E limit \in EventLimits : \E order_by \in EventOrders :
    \E replies \in Drawn(Len(ApiServiceClient_get_event_list(client, limit, order_by, AllOk).requests)) :
        Called("list_events", [limit |-> limit, order_by |-> order_by],
               ApiServiceClient_get_event_list(client, limit, order_by, replies))

\* a periodicity goes with a recurring permission
CreateAccessCode ==
    \E access_code \in AccessCodes : \E permission \in Permissions :
    \E periodicity \in {p \in BOOLEAN : p => permission = "RECURRING"} :
    \E replies \in Drawn(Len(LocksClient_create_access_code(client, access_code, permission,
                                                            periodicity, AllOk).requests)) :
        Called("create_access_code",
               [access_code |-> access_code, permission |-> permission, periodicity |-> periodicity],
               LocksClient_create_access_code(client, access_code, permission, periodicity, replies))

Next ==
    \/ Login
    \/ RefreshToken
    \/ SetBrightness
    \/ SetColor
    \/ SetEffect
    \/ Info
    \/ ListEvents
    \/ CreateAccessCode

Spec == InitClient /\ [][Next]_vars

----------------------------------------------------------------------------
(* Claims about the marshaling core                                        *)

WireFalse == {PyInt(0), PyStr(<<"0">>), PyBool(FALSE), PyStr(<<"f", "a", "l", "s", "e">>)}
WireTrue == {PyInt(1), PyStr(<<"1">>), PyBool(TRUE), PyStr(<<"t", "r", "u", "e">>)}

\* C1: a boolean property built from wire 0, "0", false or "false" holds
\* False, from 1, "1", true or "true" holds True, and from any other wire
\* value holds None, and the construction never raises.
C1_BoolCoercion ==
    (prop.raised # "idle" /\ prop.definition.type = "bool") =>
        /\ prop.raised = "none"
        /\ prop.raw \in WireFalse => prop.value = PyBool(FALSE)
        /\ prop.raw \in WireTrue => prop.value = PyBool(TRUE)
        /\ prop.raw \notin (WireFalse \cup WireTrue) => prop.value = PyNone

\* the raw value is not of the semantic type and cannot be converted to it
CannotCoerce(definition, value) ==
    /\ value # PyNone
    /\ ~isinstance(value, definition.type)
    /\ ~Coerce(definition.type, value).ok

\* C2: building a property value from a primitive or None never raises, and
\* a raw value that cannot be coerced to the semantic type is stored as None.
C2_NeverRaisesStoresNone ==
    prop.raised # "idle" =>
        /\ prop.raised = "none"
        /\ CannotCoerce(prop.definition, prop.raw) => prop.value = PyNone

\* C3: for a definition with allowed values, validate fails with a request
\* error exactly when the coerced value is outside the allowed values.
C3_ValidateExactly ==
    (valres.outcome # "idle" /\ valres.definition.has_acceptable
        /\ ValidatedValue(valres.definition, valres.candidate).ok) =>
        LET v == ValidatedValue(valres.definition, valres.candidate).val
        IN IF PyIn(v, valres.definition.acceptable_values)
           THEN valres.outcome = "pass"
           ELSE valres.outcome = "WyzeRequestError"

----------------------------------------------------------------------------
(* Claims about the client and its calls                                   *)

DeviceOps == {"set_brightness", "set_color", "set_effect", "info", "list_events",
              "create_access_code"}

\* the call that has just ended raised a configuration error and sent nothing
ConfigurationErrorSentNothing ==
    call'.error = "WyzeClientConfigurationError" /\ call'.requests = <<>>

\* C6: login while a token is set, login without email and password, login
\* without key id and API key, refresh without a refresh token, and a device
\* call on a client without a token each raise a configuration error, and a
\* call that raises a configuration error has sent no request.
C6_ConfigurationErrorsBeforeNetwork ==
    [][/\ (call'.op = "login" /\ client.token # NoToken) => ConfigurationErrorSentNothing
       /\ (call'.op = "login" /\ client.token = NoToken
             /\ (~(client.email \/ call'.args.email) \/ ~(client.password \/ call'.args.password)))
            => ConfigurationErrorSentNothing
       /\ (call'.op = "login" /\ client.token = NoToken
             /\ (~(client.key_id \/ call'.args.key_id) \/ ~(client.api_key \/ call'.args.api_key)))
            => ConfigurationErrorSentNothing
       /\ (call'.op = "refresh_token" /\ client.refresh_token = NoToken)
            => ConfigurationErrorSentNothing
       /\ (call'.op \in DeviceOps /\ client.token = NoToken) => ConfigurationErrorSentNothing
       /\ call'.error = "WyzeClientConfigurationError" => call'.requests = <<>>]_vars

\* a device call on a client without a token has raised the configuration
\* error and no request was recorded
C6_Witness ==
    /\ call.op = "set_color"
    /\ client.token = NoToken
    /\ call.error = "WyzeClientConfigurationError"
    /\ call.requests = <<>>

\* the brightness is outside the allowed values of its definition
InvalidBrightness(value) ==
    \/ ~ValidatedValue(brightness, value).ok
    \/ ~PyIn(ValidatedValue(brightness, value).val, brightness.acceptable_values)

\* the access code is not a string of 4 to 8 digits
MalformedAccessCode(access_code) ==
    \/ access_code = PyNone
    \/ ~AllDigits(access_code.v)
    \/ Len(access_code.v) < 4
    \/ Len(access_code.v) > 8

RequestErrors == {"WyzeRequestError", "WyzeFeatureNotSupportedError"}

\* C7: a call given a brightness that fails validation, an event-list limit
\* outside 1..20 or order_by outside {1, 2}, or a malformed access code
\* raises a request error and sends no request.
C7_InvalidParameterRaisesRequestError ==
    (client.token # NoToken
        /\ \/ call.op = "set_brightness" /\ InvalidBrightness(call.args.brightness)
           \/ call.op = "list_events" /\ (call.args.limit \notin 1..20 \/ call.args.order_by \notin {1, 2})
           \/ call.op = "create_access_code" /\ MalformedAccessCode(call.args.access_code))
    => (call.error \in RequestErrors /\ call.requests = <<>>)

\* C8: set_color on a device that is not a color bulb, a list of colors on
\* a device that is not a Light Strip Pro, and set_effect on a device that
\* is not a light strip raise a feature-not-supported error and send no
\* request.
C8_UnsupportedFeatureBeforeNetwork ==
    (client.token # NoToken
        /\ \/ call.op = "set_color" /\ ~call.args.device_model.mesh
           \/ call.op = "set_color" /\ call.args.color.list /\ ~call.args.device_model.pro
           \/ call.op = "set_effect" /\ ~call.args.device_model.strip)
    => (call.error = "WyzeFeatureNotSupportedError" /\ call.requests = <<>>)

\* one color was asked of a device that is not a color bulb
C8_Witness ==
    /\ call.op = "set_color"
    /\ client.token # NoToken
    /\ ~call.args.device_model.mesh
    /\ ~call.args.color.list
    /\ call.error = "WyzeFeatureNotSupportedError"
    /\ call.requests = <<>>

\* C9: after a successful refresh_token the stored access token and the
\* stored refresh token both equal the values of the refresh response.
C9_RefreshReplacesBothTokens ==
    (call.op = "refresh_token" /\ call.error = "none") =>
        /\ client.token = call.args.session.access_token
        /\ client.refresh_token = call.args.session.refresh_token

\* a refresh succeeded and both stored tokens are the newest ones issued
C9_Witness ==
    /\ call.op = "refresh_token"
    /\ call.error = "none"
    /\ Len(call.requests) = 1
    /\ call.args.session = [access_token |-> MaxToken, refresh_token |-> MaxToken]
    /\ client.token = MaxToken
    /\ client.refresh_token = MaxToken

AuthEndpoints == {"/api/user/login", "/user/login", "/user/login/sendSmsCode",
                  "/app/user/refresh_token"}

----------------------------------------------------------------------------
(* Typed records: Device, Bulb, MeshBulb, Lock and DeviceParser            *)

\* a key that the raw bag does not carry
PyAbsent == [t |-> "absent", v |-> 0]

\* None for a keyword argument that was not passed
Passed(x) == IF x = PyAbsent THEN PyNone ELSE x

\* one item of a property_list; ts tells whether the item carries "ts"
Item(pid, value, ts) == [pid |-> pid, value |-> value, ts |-> ts]

NoList == [present |-> FALSE, items |-> <<>>]

PropertyLists ==
    {NoList}
        \cup {[present |-> TRUE,
               items |-> <<Item("switch_state", PyInt(v), ts), Item("open_close_state", PyInt(1), TRUE)>>] :
                    v \in {0, 1}, ts \in BOOLEAN}
        \cup {[present |-> TRUE, items |-> <<Item("switch_state", PyInt(1), TRUE)>>],
              [present |-> TRUE, items |-> <<Item("open_close_state", PyInt(1), TRUE)>>]}

\* device_params.locker_status: absent, or a dict with door and maybe hardlock
LockerStatuses ==
    {[present |-> FALSE, hardlock |-> PyAbsent, door |-> PyAbsent]}
        \cup {[present |-> TRUE, hardlock |-> h, door |-> PyInt(1)] : h \in {PyAbsent, PyInt(1), PyInt(3)}}

ProductTypes == {PyAbsent, PyStr("Light"), PyStr("MeshLight"), PyStr("Lock"), PyStr("Zzz")}

\* the raw bags: the keys Device declares (product_type, type, mac,
\* firmware_ver), the keys the lock reads, and two keys nothing declares
RawBags ==
    [product_type : ProductTypes,
     type : {PyAbsent, PyStr("x")},
     mac : {PyAbsent, PyStr("A")},
     firmware_ver : {PyAbsent, PyStr("1")},
     switch_state : {PyAbsent, PyInt(0), PyInt(1)},
     property_list : PropertyLists,
     locker_status : LockerStatuses,
     foo : {PyAbsent, PyInt(1)},
     self : {PyAbsent, PyInt(1)}]

UnknownKeys == {"foo", "self"}

\* the keys of the bag other than those in named
Others(bag, named) ==
    {k \in {"product_type", "type", "mac", "firmware_ver", "switch_state", "foo"} \ named :
        bag[k] # PyAbsent}
        \cup (IF bag.property_list.present THEN {"property_list"} ELSE {})
        \cup (IF bag.locker_status.present THEN {"device_params"} ELSE {})

\* the keyword parameters of Device.__init__ that the bags can carry
Device_parameters == {"product_type", "type", "mac", "firmware_ver"}

Device_attributes ==
    {"binding_ts", "binding_user_nickname", "conn_state", "conn_state_ts", "enr",
     "event_master_switch", "firmware_ver", "first_activation_ts", "first_binding_ts",
     "hardware_ver", "is_in_auto", "mac", "nickname", "p2p_id", "p2p_type",
     "parent_device_enr", "parent_device_mac", "product_model", "product_type",
     "push_switch", "timezone_gmt_offset", "timezone_name", "type", "user_role"}

\* the Python properties of Device whose name is a member of attributes
Device_properties == {"mac", "type", "nickname", "enr", "push_switch"}

NoDeviceProp == [definition |-> lock_state, has_ts |-> FALSE, value |-> PyNone]

\* a record that was not built because error left the constructor
NotBuilt(cls, error) ==
    [cls |-> cls, raised |-> error, _type |-> PyNone, _mac |-> PyNone,
     _firmware_version |-> PyNone, product_type |-> PyNone,
     has_lock_state |-> FALSE, _lock_state |-> NoDeviceProp, logged |-> {}]

\* Device.__init__(type=type, **bag) for the class cls
Device_init(cls, type, bag) ==
    [cls |-> cls, raised |-> "none",
     \* type, else _extract_attribute('product_type', others), and
     \* product_type is never among others
     _type |-> type,
     _mac |-> Passed(bag.mac),
     _firmware_version |-> Passed(bag.firmware_ver),
     product_type |-> Passed(bag.product_type),
     has_lock_state |-> FALSE, _lock_state |-> NoDeviceProp, logged |-> {}]

\* show_unknown_key_warning(self, others): the keys named in the message
show_unknown_key_warning(others) == others \ {"type", "product_type"}

\* Bulb(**bag): type is a parameter of Bulb; the others reach the warning
Bulb_init(bag) ==
    IF bag.self # PyAbsent THEN NotBuilt("Bulb", "TypeError")
    ELSE [Device_init("Bulb", Passed(bag.type), bag) EXCEPT
            !.logged = show_unknown_key_warning(Others(bag, {"type"}))]

\* MeshBulb(**bag): super().__init__(type=self.type, **others)
MeshBulb_init(bag) ==
    IF bag.self # PyAbsent \/ bag.type # PyAbsent THEN NotBuilt("MeshBulb", "TypeError")
    ELSE [Device_init("MeshBulb", PyStr("MeshLight"), bag) EXCEPT
            !.logged = show_unknown_key_warning(Others(bag, {}))]

\* the item of the list with this pid, as _extract_property finds it
RECURSIVE FindItem(_, _)
FindItem(pid, items) ==
    IF items = <<>> THEN [found |-> FALSE, item |-> Item(pid, PyNone, FALSE)]
    ELSE IF Head(items).pid = pid THEN [found |-> TRUE, item |-> Head(items)]
    ELSE FindItem(pid, Tail(items))

\* Device._extract_property(prop_def, others) on the others of a lock:
\* property_list is searched when present, the top-level keys otherwise
Lock_extract_property(prop_def, bag) ==
    IF bag.property_list.present
    THEN LET f == FindItem(prop_def.pid, bag.property_list.items)
         IN IF f.found
            THEN [found |-> TRUE, has_ts |-> f.item.ts,
                  value |-> DeviceProp_init(prop_def, f.item.value).value]
            ELSE [found |-> FALSE, has_ts |-> FALSE, value |-> PyNone]
    ELSE IF prop_def.pid = "switch_state" /\ bag.switch_state # PyAbsent
    THEN [found |-> TRUE, has_ts |-> FALSE,
          value |-> DeviceProp_init(prop_def, bag.switch_state).value]
    ELSE [found |-> FALSE, has_ts |-> FALSE, value |-> PyNone]

locker_lock_state == PropDef("hardlock", "int", NoApiType, {PyInt(i) : i \in -1..5})
open_close_state == PropDef("open_close_state", "bool", "int", {})

\* not value
Not(value) == PyBool(~bool_(value))

\* the end of _extract_lock_state and of _extract_open_close_state: prop is
\* the DeviceProp found, or None; prop.definition and prop.ts are read
FlippedProp(p) ==
    \* None has no attribute definition
    IF ~p.found THEN Raise("AttributeError")
    \* DeviceProp.__init__ sets _ts only when ts is given
    ELSE IF ~p.has_ts THEN Raise("AttributeError")
    ELSE Ok(Not(p.value))

\* Lock._extract_lock_state(others): the value of the new DeviceProp
Lock_extract_lock_state(bag) ==
    IF bag.locker_status.present
    THEN IF bag.locker_status.hardlock = PyAbsent
         \* value is None and value.value is read for the log message
         THEN Raise("AttributeError")
         ELSE Ok(DeviceProp_init(locker_lock_state, bag.locker_status.hardlock).value)
    ELSE FlippedProp(Lock_extract_property(lock_state, bag))

\* Lock._extract_open_close_state(others): only whether it raises
Lock_extract_open_close_state(bag) ==
    IF bag.locker_status.present
    THEN Ok(PyBool(FALSE))
    ELSE FlippedProp(Lock_extract_property(open_close_state, bag))

\* Lock(**bag)
Lock_init(bag) ==
    IF bag.self # PyAbsent \/ bag.type # PyAbsent THEN NotBuilt("Lock", "TypeError")
    ELSE IF ~Lock_extract_lock_state(bag).ok
    THEN NotBuilt("Lock", Lock_extract_lock_state(bag).exc)
    ELSE IF ~Lock_extract_open_close_state(bag).ok
    THEN NotBuilt("Lock", Lock_extract_open_close_state(bag).exc)
    ELSE [Device_init("Lock", PyStr("Lock"), bag) EXCEPT
            !.has_lock_state = TRUE,
            !._lock_state = [definition |-> IF bag.locker_status.present
                                            THEN locker_lock_state ELSE lock_state,
                             has_ts |-> TRUE,
                             value |-> Lock_extract_lock_state(bag).val],
            !.logged = show_unknown_key_warning(Others(bag, {}))]

\* Device(**bag), the generic record
Generic_init(bag) ==
    IF bag.self # PyAbsent THEN NotBuilt("Device", "TypeError")
    ELSE Device_init("Device", Passed(bag.type), bag)

\* what a parse gives: the record or None, and whether a warning was logged
Parsed(record, warned) == [none |-> FALSE, record |-> record, warned |-> warned]
ParsedNone == [none |-> TRUE, record |-> NotBuilt("None", "none"), warned |-> TRUE]

\* DeviceParser.parse(device) for a dict
DeviceParser_parse(bag) ==
    IF bag.product_type = PyAbsent THEN ParsedNone
    ELSE IF bag.product_type = PyStr("Light") THEN Parsed(Bulb_init(bag), FALSE)
    ELSE IF bag.product_type = PyStr("Lock") THEN Parsed(Lock_init(bag), FALSE)
    ELSE IF bag.product_type = PyStr("MeshLight") THEN Parsed(MeshBulb_init(bag), FALSE)
    ELSE Parsed(Generic_init(bag), TRUE)

\* getattr(self, key, None) for a member of Device.attributes
getattr(r, key) ==
    IF key \notin Device_properties THEN PyNone
    ELSE IF key = "mac" THEN r._mac
    \* the class attribute type of a family hides the property of Device
    ELSE IF key = "type"
    THEN CASE r.cls = "Device" -> r._type
           [] r.cls = "Bulb" -> PyStr("Light")
           [] r.cls = "MeshBulb" -> PyStr("MeshLight")
           [] OTHER -> PyStr("Lock")
    ELSE PyNone

\* is_not_empty(self, key)
is_not_empty(r, key) ==
    LET value == getattr(r, key)
    IN IF value = PyNone THEN FALSE
       ELSE IF value.t = "str" THEN value.v # ""
       ELSE TRUE

\* get_non_null_attributes(): the keys of the export that come from
\* Device.attributes
get_non_null_attributes(r) == {key \in Device_attributes : is_not_empty(r, key)}

\* LockableMixin.lock_state
LockableMixin_lock_state(r) ==
    IF ~r.has_lock_state THEN PyBool(FALSE) ELSE r._lock_state.value

\* Lock.is_locked: lock_state is read through the mixin, which gives the
\* value, and then .definition of that value is read
Lock_is_locked(r) ==
    LET state == LockableMixin_lock_state(r)
    IN IF state = PyNone THEN Ok(PyBool(FALSE))
       ELSE IF state.t \in {"bool", "int", "str", "float"} THEN Raise("AttributeError")
       ELSE Ok(state)

NoExport == {}
NoLocked == Raise("not read")

\* a raw bag has arrived from the backend
InitRecord ==
    /\ prop = NoProp
    /\ valres = NoValidation
    /\ ext = NoExtraction
    /\ resp = NoResponse
    /\ client = NoClient
    /\ call = NoCall
    /\ wire = NoWire
    /\ \E bag \in RawBags :
          rec = [op |-> "input", bag |-> bag, parsed |-> ParsedNone,
                 export |-> NoExport, is_locked |-> NoLocked]
    /\ vmap = NoMap
    /\ away = NoAway

\* the raw bag is parsed into a typed record
ParseDevice ==
    /\ rec.op = "input"
    /\ rec' = [rec EXCEPT !.op = "parse", !.parsed = DeviceParser_parse(rec.bag)]
    /\ UNCHANGED <<prop, valres, ext, resp, client, call, wire, vmap, away>>

\* BaseBulb.parse(device) for a dict; the bags carry no product_model,
\* which the branch of Bulb.type reads with device["product_model"]
BaseBulb_parse(bag) ==
    IF bag.product_type = PyAbsent THEN ParsedNone
    ELSE IF bag.product_type = PyStr("Light") THEN Parsed(NotBuilt("Bulb", "KeyError"), FALSE)
    ELSE IF bag.product_type = PyStr("MeshLight") THEN Parsed(MeshBulb_init(bag), FALSE)
    ELSE Parsed(Bulb_init(bag), TRUE)

\* the raw bag is parsed by the parser of the bulb family
ParseBulb ==
    /\ rec.op = "input"
    /\ rec' = [rec EXCEPT !.op = "parse_bulb", !.parsed = BaseBulb_parse(rec.bag)]
    /\ UNCHANGED <<prop, valres, ext, resp, client, call, wire, vmap, away>>

Built == rec.op \notin {"idle", "input"} /\ ~rec.parsed.none /\ rec.parsed.record.raised = "none"

\* the record is exported with to_dict()
ToDict ==
    /\ rec.op = "parse"
    /\ Built
    /\ rec' = [rec EXCEPT !.op = "to_dict",
                          !.export = get_non_null_attributes(rec.parsed.record)]
    /\ UNCHANGED <<prop, valres, ext, resp, client, call, wire, vmap, away>>

\* is_locked of a lock record is read
IsLocked ==
    /\ rec.op = "parse"
    /\ Built
    /\ rec.parsed.record.cls = "Lock"
    /\ rec' = [rec EXCEPT !.op = "is_locked", !.is_locked = Lock_is_locked(rec.parsed.record)]
    /\ UNCHANGED <<prop, valres, ext, resp, client, call, wire, vmap, away>>

NextRecord == ParseDevice \/ ParseBulb \/ ToDict \/ IsLocked

SpecRecord == InitRecord /\ [][NextRecord]_vars

----------------------------------------------------------------------------
(* VacuumMap: decoding the map blob                                        *)

\* the decoded map: under which key it holds the rooms and the charge station
Maps == [rooms : {"absent", "roomDataInfo_", "12"}, charge : {"absent", "chargeStation_", "7"}]

EmptyMap == [rooms |-> "absent", charge |-> "absent"]

\* the blob is None
NoBlob == [none |-> TRUE, base64 |-> "valid", deflate |-> "valid", protobuf |-> "valid",
           map |-> EmptyMap]

\* a blob: how each step of the decoding finds it, and the map it encodes.
\* base64: "padding" is a text b64decode rejects, "non_ascii" a str with a
\* character outside ASCII
Blobs ==
    {NoBlob} \cup
    [none : {FALSE}, base64 : {"valid", "padding", "non_ascii"}, deflate : {"valid", "corrupt"},
     protobuf : {"valid", "mismatch"}, map : Maps]

\* the exception of the first step that fails, "none" when all succeed
StepException(blob) ==
    CASE blob.base64 = "padding" -> "binascii.Error"
      \* b64decode of a str that is not ASCII raises ValueError itself
      [] blob.base64 = "non_ascii" -> "ValueError"
      [] blob.deflate = "corrupt" -> "zlib.error"
      \* what blackboxprotobuf.protobuf_to_json raises is its own exception
      [] blob.protobuf = "mismatch" -> "DecoderException"
      [] OTHER -> "none"

\* except (binascii.Error, zlib.error)
parse_blob_except(exception) ==
    IF exception \in {"binascii.Error", "zlib.error"} THEN "WyzeObjectFormationError"
    ELSE exception

\* VacuumMap.parse_blob(blob)
VacuumMap_parse_blob(blob) ==
    IF blob.none THEN [raised |-> "none", map |-> EmptyMap]
    ELSE [raised |-> parse_blob_except(StepException(blob)),
          map |-> IF StepException(blob) = "none" THEN blob.map ELSE EmptyMap]

\* an accessor of the map: parse_blob, then the value under one of two keys
VacuumMap_accessor(accessor, blob) ==
    [accessor |-> accessor, blob |-> blob,
     raised |-> VacuumMap_parse_blob(blob).raised,
     value |-> CASE accessor = "rooms" -> VacuumMap_parse_blob(blob).map.rooms # "absent"
                 [] accessor = "charge_station" -> VacuumMap_parse_blob(blob).map.charge # "absent"
                 [] accessor = "navigation_points" -> FALSE
                 [] OTHER -> VacuumMap_parse_blob(blob).raised = "none"]

Accessors == {"parse_blob", "rooms", "charge_station", "navigation_points"}

\* the blob of a map is decoded, directly or by an accessor
DecodeBlob ==
    /\ \E accessor \in Accessors, blob \in Blobs :
          vmap' = [op |-> "decode", result |-> VacuumMap_accessor(accessor, blob)]
    /\ UNCHANGED <<prop, valres, ext, resp, client, call, wire, rec, away>>

NextMap == DecodeBlob

SpecMap == Init /\ [][NextMap]_vars

----------------------------------------------------------------------------
(* Claims about the wire value of a property                               *)

BoolToWire ==
    /\ wire.op = "api_value"
    /\ wire.definition.type = "bool"
    /\ wire.definition.api_type \in {"int", "str"}

\* C12: a property whose semantic type is bool and whose wire type is int
\* or str has the wire value 0 or 1 (as an int, or as the str "0" or "1").
C12_BoolRenderedAsZeroOrOne ==
    BoolToWire =>
        /\ wire.api.ok
        /\ wire.definition.api_type = "int" => wire.api.val \in {PyInt(0), PyInt(1)}
        /\ wire.definition.api_type = "str" => wire.api.val \in {PyStr(<<"0">>), PyStr(<<"1">>)}

\* a wire value w stands for the value v of a definition: it has the wire
\* type when one is declared, it is v or the text of v, and it is read back
\* as the same semantic value
WireEquivalent(definition, w, v) ==
    /\ definition.api_type # NoApiType => isinstance(w, definition.api_type)
    /\ \/ PyEq(w, v)
       \/ definition.api_type = "str" /\ w = PyStr(str(v))
    /\ DeviceProp_init(definition, w).raised = "none"
    /\ PyEq(DeviceProp_init(definition, w).value, DeviceProp_init(definition, v).value)

AllowedValueToWire ==
    /\ wire.op = "api_value"
    /\ wire.definition.has_acceptable
    /\ wire.raw \in wire.definition.acceptable_values

\* C13: for a definition with acceptable values and a value v among them,
\* the api_value of the DeviceProp built from v is a wire value equivalent
\* to v.
C13_RoundTrip ==
    AllowedValueToWire =>
        /\ wire.api.ok
        /\ WireEquivalent(wire.definition, wire.api.val, wire.raw)

\* the int 2 of save_comfort_balance went to the wire as the str "2"
C13_Witness ==
    /\ AllowedValueToWire
    /\ wire.definition = save_comfort_balance
    /\ wire.raw = PyInt(2)
    /\ wire.api = Ok(PyStr(<<"2">>))

----------------------------------------------------------------------------
(* Claims about typed records                                              *)

\* the value the constructor stored for a member of attributes
Held(r, key) ==
    CASE key = "mac" -> r._mac
      [] key = "firmware_ver" -> r._firmware_version
      [] key = "product_type" -> r.product_type
      [] key = "type" -> r._type
      [] OTHER -> PyNone

\* C14: the exported keys are members of attributes, every member of
\* attributes for which the record holds a value that is not None is
\* exported, and no key that nothing declares is exported.
C14_ExportDeterminedByAttributes ==
    rec.op = "to_dict" =>
        /\ rec.export \subseteq Device_attributes
        /\ \A key \in Device_attributes :
                Held(rec.parsed.record, key) # PyNone => key \in rec.export
        /\ rec.export \cap UnknownKeys = {}

\* the bag without the keys that nothing declares
WithoutUnknownKeys(bag) == [bag EXCEPT !.foo = PyAbsent, !.self = PyAbsent]

HasUnknownKeys(bag) == bag.foo # PyAbsent \/ bag.self # PyAbsent

\* the fields of a record other than the keys its constructor logged
Fields(r) == [r EXCEPT !.logged = {}]

\* C15: a raw bag with keys that nothing declares is built into the record
\* of the bag without them: the constructor does not raise because of them,
\* and Bulb, MeshBulb and Lock name them in their log message.
C15_UnknownKeysNeverRaise ==
    (rec.op = "parse" /\ ~rec.parsed.none /\ HasUnknownKeys(rec.bag)) =>
        /\ Fields(rec.parsed.record) =
                Fields(DeviceParser_parse(WithoutUnknownKeys(rec.bag)).record)
        /\ (rec.parsed.record.raised = "none" /\ rec.parsed.record.cls # "Device") =>
                \A k \in UnknownKeys : rec.bag[k] # PyAbsent => k \in rec.parsed.record.logged

\* the product types each parser dispatches on
Recognized(op) ==
    IF op = "parse" THEN {PyStr("Light"), PyStr("MeshLight"), PyStr("Lock")}
    ELSE {PyStr("Light"), PyStr("MeshLight")}

\* C16: a parse raises only what the generic constructor raises on the same
\* bag, so never because of the product type; a bag without product_type
\* gives None and a warning, and a bag with a product type that is not
\* recognized gives the base record of the parser and a warning.
C16_ParseNeverRaisesOnType ==
    rec.op \in {"parse", "parse_bulb"} =>
        /\ (~rec.parsed.none /\ rec.parsed.record.raised # "none") =>
                Generic_init(rec.bag).raised = rec.parsed.record.raised
        /\ rec.bag.product_type = PyAbsent => (rec.parsed.none /\ rec.parsed.warned)
        /\ (rec.bag.product_type # PyAbsent /\ rec.bag.product_type \notin Recognized(rec.op)) =>
                /\ ~rec.parsed.none
                /\ rec.parsed.warned
                /\ rec.parsed.record.cls = (IF rec.op = "parse" THEN "Device" ELSE "Bulb")

\* the switch_state a lock bag carries, at the top level or in property_list
CarriedSwitchState(bag) ==
    IF bag.property_list.present
    THEN IF FindItem("switch_state", bag.property_list.items).found
         THEN FindItem("switch_state", bag.property_list.items).item.value
         ELSE PyAbsent
    ELSE bag.switch_state

LockBagWithSwitchState ==
    /\ rec.op \in {"parse", "is_locked"}
    /\ rec.bag.product_type = PyStr("Lock")
    /\ rec.bag.type = PyAbsent
    /\ rec.bag.self = PyAbsent
    /\ ~rec.bag.locker_status.present
    /\ CarriedSwitchState(rec.bag) # PyAbsent

\* C17: a lock bag with switch_state and no locker_status is built into a
\* record whose is_locked is False for switch_state 1 and True for
\* switch_state 0.
C17_IsLockedNegatesSwitchState ==
    LockBagWithSwitchState =>
        /\ rec.parsed.record.raised = "none"
        /\ rec.op = "is_locked" =>
                rec.is_locked = Ok(PyBool(CarriedSwitchState(rec.bag) = PyInt(0)))

----------------------------------------------------------------------------
(* Claims about single calls                                               *)

\* an int that is not one of 0..100
OutOfRangeBrightness(value) == value.t = "int" /\ value.v \notin 0..100

\* C18: set_brightness with an int outside 0..100 ends with the validation
\* error WyzeRequestError.
C18_OutOfRangeBrightnessRaisesValidationError ==
    (client.token # NoToken /\ call.op = "set_brightness"
        /\ OutOfRangeBrightness(call.args.brightness))
    => call.error = "WyzeRequestError"

\* the messages that tell the caller that the access token has expired
ExpiredTokenMessages ==
    {"The access token has expired. Please refresh the token and try again."}

AccessTokenErrorEnvelope ==
    /\ resp.op = "validate"
    /\ resp.response.status_code = HttpOk
    /\ resp.response.data = [kind |-> "dict", code |-> PyInt(2001)]

\* C19: validating the envelope with code 2001 raises WyzeApiError with a
\* message that says the access token has expired.
C19_ExpiredTokenMessage ==
    AccessTokenErrorEnvelope =>
        /\ resp.outcome = "WyzeApiError"
        /\ resp.message \in ExpiredTokenMessages

\* a step of the decoding fails on the blob
StepFails(blob) == ~blob.none /\ StepException(blob) # "none"

\* C20: when a step of the decoding fails, parse_blob and the accessors
\* raise WyzeObjectFormationError and nothing else.
C20_OnlyObjectFormationError ==
    (vmap.op = "decode" /\ StepFails(vmap.result.blob)) =>
        vmap.result.raised = "WyzeObjectFormationError"

(***************************************************************************)
(* Claims about the lookup chain of attribute extraction                   *)
(***************************************************************************)
\* the highest-priority location of the bag that holds the key, 0 if none
HighestHolding(bag, name) ==
    IF \E l \in Locations : HasKey(bag, l, name)
    THEN CHOOSE l \in Locations :
            HasKey(bag, l, name) /\ \A k \in Locations : HasKey(bag, k, name) => l <= k
    ELSE 0

\* C21: for every raw bag that holds the key at some location, attribute
\* extraction returns the value at the highest-priority location holding the
\* key, whichever other containers are also present in the bag.
C21_ChainConsultsUntilKeyFound ==
    (ext.op = "_extract_attribute" /\ HighestHolding(ext.bag, ext.name) # 0)
        => ext.value = ValueAt(ext.bag, HighestHolding(ext.bag, ext.name), ext.name)

(***************************************************************************)
(* Claims about the outcome of a service request                           *)
(***************************************************************************)
\* C22: every service request of a call either returns a validated
\* response or raises an error to the caller; it never returns None, so a
\* transport failure or an unreadable body is never turned into an empty
\* result of the call.
C22_RequestReturnsResponseOrRaises ==
    call.op # "idle" =>
        /\ \A i \in 1..Len(call.requests) :
              \/ do_request(call.requests[i].reply).returned = "response"
              \/ call.requests[i].raised # "none"
        /\ (call.error = "none" /\ Len(call.requests) > 0) => call.returned = "response"

(***************************************************************************)
(* VacuumsClient: the commands of a robot vacuum                           *)
(***************************************************************************)
\* the members of VacuumMode with their codes, in declaration order
VacuumMode ==
    <<[name |-> "CLEANING", codes |-> {1, 30, 1101, 1201, 1301, 1401}],
      [name |-> "PAUSED", codes |-> {4, 31, 1102, 1202, 1302, 1402}],
      [name |-> "FINISHED_RETURNING_TO_CHARGE", codes |-> {10, 32, 1103, 1203, 1303, 1403}],
      [name |-> "RETURNING_TO_CHARGE", codes |-> {5}],
      [name |-> "DOCKED_NOT_COMPLETE", codes |-> {11, 33, 1104, 1204, 1304, 1404}],
      [name |-> "QUICK_MAPPING_MAPPING", codes |-> {45}],
      [name |-> "QUICK_MAPPING_PAUSED", codes |-> {46}],
      [name |-> "QUICK_MAPPING_COMPLETED_RETURNING_TO_CHARGE", codes |-> {47}],
      [name |-> "QUICK_MAPPING_DOCKED_NOT_COMPLETE", codes |-> {48}],
      [name |-> "BREAK_POINT", codes |-> {39}],
      [name |-> "IDLE", codes |-> {0, 14, 29, 35, 40}],
      [name |-> "PAUSE", codes |-> {9, 27, 37}],
      [name |-> "SWEEPING", codes |-> {7, 25, 36}],
      [name |-> "FULL_FINISH_SWEEPING_ON_WAY_CHARGE", codes |-> {12, 26, 38}]>>

\* VacuumMode.parse(code): the first member whose codes hold code, or None
RECURSIVE VacuumMode_parse_from(_, _)
VacuumMode_parse_from(members, code) ==
    IF Len(members) = 0 THEN "None"
    ELSE IF code \in Head(members).codes THEN Head(members).name
    ELSE VacuumMode_parse_from(Tail(members), code)

VacuumMode_parse(code) == VacuumMode_parse_from(VacuumMode, code)

\* the members of VacuumStatus with their code
VacuumStatus ==
    <<[name |-> "STANDBY", code |-> 1], [name |-> "CLEANING", code |-> 2],
      [name |-> "RETURNING_TO_CHARGE", code |-> 3], [name |-> "DOCKED", code |-> 4],
      [name |-> "MAPPING", code |-> 5], [name |-> "PAUSED", code |-> 6],
      [name |-> "ERROR", code |-> 7]>>

\* VacuumStatus.parse(code) for an int code or None
RECURSIVE VacuumStatus_parse_from(_, _)
VacuumStatus_parse_from(members, code) ==
    IF Len(members) = 0 THEN "None"
    ELSE IF code = PyInt(Head(members).code) THEN Head(members).name
    ELSE VacuumStatus_parse_from(Tail(members), code)

VacuumStatus_parse(code) == VacuumStatus_parse_from(VacuumStatus, code)

\* what the backend reports of a vacuum: the mode and vacuum_work_status
\* keys of the merged bag (absent when the responses do not carry them)
\* and the chargeState property
ModeCodes == {0, 1, 4, 5, 10, 11, 99}

WorkStatusCodes == {1, 2, 4, 6}

VacuumStates ==
    [mode : {PyAbsent} \cup {PyInt(m) : m \in ModeCodes},
     vacuum_work_status : {PyAbsent} \cup {PyInt(s) : s \in WorkStatusCodes},
     chargeState : BOOLEAN]

\* Vacuum.mode setter: None leaves _mode unset
Vacuum_mode_setter(value) ==
    IF Passed(value) = PyNone THEN [set |-> FALSE, value |-> "None"]
    ELSE [set |-> TRUE, value |-> VacuumMode_parse(value.v)]

\* Vacuum(**others): the fields the commands read
Vacuum_init(others) ==
    [mode |-> Vacuum_mode_setter(others.mode),
     status |-> VacuumStatus_parse(Passed(others.vacuum_work_status)),
     is_charging |-> others.chargeState]

\* Vacuum.mode: reading _mode of an instance that never set it raises
Vacuum_mode(device) ==
    IF device.mode.set THEN [raised |-> "none", mode |-> device.mode.value]
    ELSE [raised |-> "AttributeError", mode |-> "None"]

\* no device: info returned None
NoVacuum == [found |-> FALSE, state |-> [mode |-> PyAbsent, vacuum_work_status |-> PyAbsent,
                                        chargeState |-> FALSE]]

Vacuums == {NoVacuum} \cup {[found |-> TRUE, state |-> s] : s \in VacuumStates}

\* VacuumsClient.info(device_mac): the device list, then the properties,
\* device info, status, position and map of the vacuum
VacuumsClient_info(found, replies, token) ==
    send(<<Step("/app/v2/home_page/get_object_list", "TypeError")>>
         \o (IF found
             THEN <<Step("/plugin/venus/get_iot_prop", "AttributeError"),
                    Step("/plugin/venus/device_info", "AttributeError"),
                    Step("/plugin/venus/status", "AttributeError"),
                    Step("/plugin/venus/memory_map/current_position", "AttributeError"),
                    Step("/plugin/venus/memory_map/current_map", "AttributeError")>>
             ELSE <<>>),
         replies, token)

\* the longest command sends the six requests of info, a control request
\* and an event
MaxVacuumPlan == 8

VacuumAllOk == [i \in 1..MaxVacuumPlan |-> "ok"]

\* the replies to the requests of a command: every request is answered,
\* or one of them is not and ends the command
VacuumReplies ==
    {VacuumAllOk} \cup {[VacuumAllOk EXCEPT ![i] = kind] :
                            i \in 1..MaxVacuumPlan, kind \in ReplyKinds \ {"ok"}}

RECURSIVE Drop(_, _)
Drop(s, n) == IF n = 0 \/ Len(s) = 0 THEN s ELSE Drop(Tail(s), n - 1)

VenusServiceClient_control == Step("/plugin/venus/control", "none")

VenusServiceClient_create_event == Step("/plugin/venus/event_tracking", "none")

\* response = control(...); _create_event(...); return response
\* x is what info gave, replies the replies left after it
VacuumsClient_control_event_sent(c, x, replies, y) ==
    [client |-> c, error |-> y.error, requests |-> x.requests \o y.requests,
     returned |-> IF y.error = "none" THEN do_request(replies[1]).returned ELSE "None"]

VacuumsClient_control_event(c, x, replies) ==
    VacuumsClient_control_event_sent(
        c, x, replies,
        send(<<VenusServiceClient_control, VenusServiceClient_create_event>>, replies, c.token))

\* the guard of a command, read off the device that info returned:
\* "pass", or the exception that leaves the command
VacuumsClient_guard(command, device, m) ==
    CASE command = "clean" ->
            IF device.status = "PAUSED" THEN "pass"
            ELSE IF m.raised # "none" THEN m.raised ELSE "pass"
      [] command = "pause" ->
            IF device.status \in {"DOCKED", "PAUSED", "STANDBY"} THEN "WyzeRequestError" ELSE "pass"
      [] command = "dock" ->
            IF device.status = "DOCKED" THEN "WyzeRequestError" ELSE "pass"
      [] command = "stop" ->
            IF m.raised # "none" THEN m.raised
            ELSE IF m.mode \in {"RETURNING_TO_CHARGE", "FINISHED_RETURNING_TO_CHARGE"} THEN "pass"
            ELSE "WyzeRequestError"
      [] OTHER ->
            IF m.raised # "none" THEN m.raised
            ELSE IF m.mode # "DOCKED_NOT_COMPLETE" THEN "WyzeRequestError"
            ELSE "pass"

VacuumCommands == {"clean", "pause", "dock", "stop", "cancel"}

\* the rest of a command, x being what info gave and g what its guard gave
VacuumsClient_command_guarded(c, vacuum, replies, x, g) ==
    IF x.error # "none" THEN Result(c, x)
    \* device is None: reading device.status or device.mode raises
    ELSE IF ~vacuum.found THEN [Result(c, x) EXCEPT !.error = "AttributeError", !.returned = "None"]
    ELSE IF g # "pass" THEN [Result(c, x) EXCEPT !.error = g, !.returned = "None"]
    ELSE VacuumsClient_control_event(c, x, Drop(replies, Len(x.requests)))

\* VacuumsClient.clean / pause / dock / stop / cancel (device_mac)
VacuumsClient_command(c, command, vacuum, replies) ==
    IF BaseClient_init(c.token) # "none" THEN Raised(c, BaseClient_init(c.token))
    ELSE VacuumsClient_command_guarded(
            c, vacuum, replies, VacuumsClient_info(vacuum.found, replies, c.token),
            VacuumsClient_guard(command, Vacuum_init(vacuum.state),
                                Vacuum_mode(Vacuum_init(vacuum.state))))

\* a client, logged in or not, and the vacuum of the account as the backend
\* reports it
InitVacuum ==
    /\ prop = NoProp
    /\ valres = NoValidation
    /\ ext = NoExtraction
    /\ resp = NoResponse
    /\ wire = NoWire
    /\ rec = NoRecord
    /\ vmap = NoMap
    /\ away = NoAway
    /\ \E token \in {NoToken, 1} :
          client = [token |-> token, refresh_token |-> token, user_id |-> token # NoToken,
                    email |-> FALSE, password |-> FALSE, key_id |-> FALSE, api_key |-> FALSE]
    /\ \E vacuum \in Vacuums :
          call = [op |-> "input", args |-> [vacuum |-> vacuum], error |-> "none",
                  requests |-> <<>>, returned |-> "None"]

VacuumCalled(command, vacuum, r) ==
    /\ call' = [op |-> command, args |-> [vacuum |-> vacuum], error |-> r.error,
                requests |-> r.requests, returned |-> r.returned]
    /\ UNCHANGED <<prop, valres, ext, resp, client, wire, rec, vmap, away>>

\* the replies to draw for a command that sends n requests when every
\* request is answered
VacuumDrawn(n) == {r \in VacuumReplies : \A i \in 1..MaxVacuumPlan : i > n => r[i] = "ok"}

\* one command on the vacuum
VacuumCommand ==
    \E command \in VacuumCommands :
    \E replies \in VacuumDrawn(Len(VacuumsClient_command(client, command, call.args.vacuum,
                                                         VacuumAllOk).requests)) :
        VacuumCalled(command, call.args.vacuum,
                     VacuumsClient_command(client, command, call.args.vacuum, replies))

NextVacuum == VacuumCommand

SpecVacuum == InitVacuum /\ [][NextVacuum]_vars

(***************************************************************************)
(* Claims about the vacuum commands                                        *)
(***************************************************************************)
\* the six requests of info were answered: the command holds the device
Fetched ==
    /\ call.op \in VacuumCommands
    /\ call.args.vacuum.found
    /\ Len(call.requests) >= 6
    /\ \A i \in 1..6 : call.requests[i].reply = "ok"

\* the status and the mode that the backend reports, None when it reports
\* none or an unknown code
ReportedStatus(vacuum) == VacuumStatus_parse(Passed(vacuum.state.vacuum_work_status))

ReportedMode(vacuum) ==
    IF vacuum.state.mode = PyAbsent THEN "None" ELSE VacuumMode_parse(vacuum.state.mode.v)

GuardFails(command, vacuum) ==
    CASE command = "pause" -> ReportedStatus(vacuum) \in {"DOCKED", "PAUSED", "STANDBY"}
      [] command = "dock" -> ReportedStatus(vacuum) = "DOCKED"
      [] command = "stop" ->
            ReportedMode(vacuum) \notin {"RETURNING_TO_CHARGE", "FINISHED_RETURNING_TO_CHARGE"}
      [] command = "cancel" -> ReportedMode(vacuum) # "DOCKED_NOT_COMPLETE"
      [] OTHER -> FALSE

ControlEndpoints == {VenusServiceClient_control.endpoint, VenusServiceClient_create_event.endpoint}

\* C23: pause, dock, stop or cancel on a fetched device state that fails the
\* guard of the command raises a request error and sends neither a control
\* request nor an event-tracking request.
C23_FailedGuardRaisesAndSendsNothing ==
    (Fetched /\ GuardFails(call.op, call.args.vacuum)) =>
        /\ call.error = "WyzeRequestError"
        /\ \A i \in 1..Len(call.requests) : call.requests[i].endpoint \notin ControlEndpoints

\* C24: a vacuum command whose guard passes sends exactly one control
\* request and then exactly one event-tracking request, and no
\* event-tracking request when the control request failed.
C24_OneControlThenOneEvent ==
    (Fetched /\ ~GuardFails(call.op, call.args.vacuum)) =>
        /\ Len(call.requests) >= 7
        /\ call.requests[7].endpoint = VenusServiceClient_control.endpoint
        /\ call.requests[7].reply = "ok" =>
              (Len(call.requests) = 8
               /\ call.requests[8].endpoint = VenusServiceClient_create_event.endpoint)
        /\ call.requests[7].reply # "ok" => Len(call.requests) = 7

(***************************************************************************)
(* Claims about the second factor of login                                 *)
(***************************************************************************)
\* the endpoints of the requests of the last call, in the order sent
Endpoints == [i \in 1..Len(call.requests) |-> call.requests[i].endpoint]

\* the requests of a login whose first response offers a second factor
SecondFactorFlow(offer) ==
    IF offer = "totp" THEN <<"/api/user/login", "/user/login">>
    ELSE <<"/api/user/login", "/user/login/sendSmsCode", "/user/login">>

\* the first request of a login was answered without an access token
SecondFactorAsked ==
    /\ call.op = "login"
    /\ call.args.offer \in {"totp", "sms"}
    /\ Len(call.requests) >= 1
    /\ call.requests[1].reply = "ok"

CreatedWithoutPermission ==
    /\ call.op = "create_access_code"
    /\ client.token # NoToken
    /\ LocksClient_validate_access_code(call.args.access_code) = "none"
    /\ call.args.permission = "None"

\* C26: create_access_code with a valid access code and without a
\* permission argument goes on to create the access code (with the ALWAYS
\* permission): it does not fail on the missing permission and sends the
\* requests that create the code.
C26_DefaultPermissionIsAlways ==
    CreatedWithoutPermission =>
        /\ call.error \notin {"AttributeError", "WyzeRequestError"}
        /\ Len(call.requests) > 0

(***************************************************************************)
(* Claims about records built from incomplete bags                         *)
(***************************************************************************)
\* a lock bag with no key that collides with a constructor parameter
LockBag(bag) ==
    /\ bag.product_type = PyStr("Lock")
    /\ bag.type = PyAbsent
    /\ bag.self = PyAbsent

HasItem(pid, bag) == bag.property_list.present /\ FindItem(pid, bag.property_list.items).found

\* the bag carries the lock state nowhere: neither locker_status nor a
\* switch_state
LacksLockState(bag) ==
    /\ ~bag.locker_status.present
    /\ bag.switch_state = PyAbsent
    /\ ~HasItem("switch_state", bag)

LacksOpenCloseState(bag) == ~bag.locker_status.present /\ ~HasItem("open_close_state", bag)

\* C27: a lock record built from a bag that lacks its lock state or its
\* open/close state is built without an exception, its accessor is_locked
\* does not raise, and a missing lock state reads as absent.
C27_MissingPropertiesReadAbsent ==
    (/\ rec.op \in {"parse", "is_locked"}
     /\ LockBag(rec.bag)
     /\ LacksLockState(rec.bag) \/ LacksOpenCloseState(rec.bag)) =>
        /\ rec.parsed.record.raised = "none"
        /\ LacksLockState(rec.bag) => LockableMixin_lock_state(rec.parsed.record) \in {PyNone, PyBool(FALSE)}
        /\ rec.op = "is_locked" => rec.is_locked.ok

(***************************************************************************)
(* Claims about the accessors of an absent property                        *)
(***************************************************************************)
\* C28: is_on of a record whose bag does not carry the property reads as
\* None, which no bag that carries the property as off reads as.
C28_AbsentReadsAsNone ==
    ext.op = "is_on" =>
        /\ ~ext.found => ext.is_on = PyNone
        /\ ext.found => ext.is_on # PyNone

----------------------------------------------------------------------------
(***************************************************************************)
(* AwayModeGenerator (service/api_service.py 266-338): the random on/off  *)
(* schedule sent to a switch in away mode.  Times are whole seconds; a     *)
(* naive local datetime of 1970-01-01 is held as its seconds after local   *)
(* midnight and datetime.timestamp() subtracts the machine's UTC offset.   *)
(* random.random() is one of the fractions of Draws, a pair                *)
(* <<numerator, denominator>>, and the product is rounded down to a whole  *)
(* second.                                                                 *)
(***************************************************************************)

SecondsPerHour == 3600
SecondsPerMinute == 60
MinRemainTime == 900
MinMinutes == 5
SecondsPerDay == 24 * SecondsPerHour

\* the UTC offsets of the machine: west of UTC, UTC, east of UTC
TimezoneOffsets == {-5 * SecondsPerHour, 0, SecondsPerHour}
Draws == {<<3, 5>>, <<4, 5>>}
MaxSchedule == 100

timestamp(local, tz) == local - tz

local_am_start == 6 * SecondsPerHour
local_am_end == 9 * SecondsPerHour
local_pm_start == 18 * SecondsPerHour
local_pm_end == 23 * SecondsPerHour

\* the two windows in the order value works through them
AwayWindows ==
    <<[local_start |-> local_am_start, local_end |-> local_am_end],
      [local_start |-> local_pm_start, local_end |-> local_pm_end]>>

\* _randomize with a cursor that does not move
AwayModeGenerator_randomize_NoAdvance(cursor_time, remain_time, end_time, r) ==
    [cursor_time |-> cursor_time,
     remain_time |-> end_time - (cursor_time + SecondsPerMinute)]

\* _randomize(3600, 60, end_time): the new cursor_time and remain_time
AwayModeGenerator_randomize(cursor_time, remain_time, end_time, r) ==
    LET seconds_remaining ==
            IF remain_time - SecondsPerHour >= 0
            THEN 60 * SecondsPerMinute
            ELSE remain_time % SecondsPerHour
        random == cursor_time + MinMinutes * SecondsPerMinute
                  + ((r[1] * (seconds_remaining - MinMinutes * SecondsPerMinute)) \div r[2])
    IN  [cursor_time |-> random,
         remain_time |-> end_time - (random + SecondsPerMinute)]

\* the state _calculate_away_mode sets up before its loop
AwayModeGenerator_calculate_away_mode(g, w) ==
    [g EXCEPT !.pc = "loop", !.window = w, !.z = FALSE,
              !.remain_time = timestamp(AwayWindows[w].local_end, g.tz)
                              - timestamp(AwayWindows[w].local_start, g.tz),
              !.cursor_time = timestamp(AwayWindows[w].local_start, g.tz)]

AwayModeGenerator_remove_unreasonable_data(arrayList, local_end, tz) ==
    IF /\ Len(arrayList) >= 2
       /\ arrayList[Len(arrayList)] + tz > timestamp(local_end, tz)
    THEN SubSeq(arrayList, 1, Len(arrayList) - 2)
    ELSE arrayList

\* strftime('%H%M', gmtime(v)) followed by the on/off bit
AwayModeGenerator_value(values) ==
    [i \in 1..Len(values) |->
        [hour |-> (values[i] % SecondsPerDay) \div SecondsPerHour,
         minute |-> (values[i] % SecondsPerHour) \div SecondsPerMinute,
         bit |-> i % 2]]

InitAway ==
    /\ prop = NoProp
    /\ valres = NoValidation
    /\ ext = NoExtraction
    /\ resp = NoResponse
    /\ client = NoClient
    /\ call = NoCall
    /\ wire = NoWire
    /\ rec = NoRecord
    /\ vmap = NoMap
    /\ \E tz \in TimezoneOffsets :
          away = [NoAway EXCEPT !.pc = "constructed", !.tz = tz]

\* value is read: the morning window is set up
CalculateAwayMode ==
    /\ away.pc = "constructed"
    /\ away' = AwayModeGenerator_calculate_away_mode(away, 1)
    /\ UNCHANGED <<prop, valres, ext, resp, client, call, wire, rec, vmap>>

\* one pass of the loop that appends an entry
Randomize ==
    /\ away.pc = "loop"
    /\ away.z \/ away.remain_time > MinRemainTime
    /\ Len(away.arrayList) < MaxSchedule
    /\ \E r \in Draws :
          away' = [away EXCEPT
                     !.cursor_time = AwayModeGenerator_randomize(
                         away.cursor_time, away.remain_time,
                         timestamp(AwayWindows[away.window].local_end, away.tz), r).cursor_time,
                     !.remain_time = AwayModeGenerator_randomize(
                         away.cursor_time, away.remain_time,
                         timestamp(AwayWindows[away.window].local_end, away.tz), r).remain_time,
                     !.arrayList = Append(@, AwayModeGenerator_randomize(
                         away.cursor_time, away.remain_time,
                         timestamp(AwayWindows[away.window].local_end, away.tz), r).cursor_time),
                     !.z = ~@]
    /\ UNCHANGED <<prop, valres, ext, resp, client, call, wire, rec, vmap>>

AwayTrimmed(g) ==
    [g EXCEPT !.arrayList = AwayModeGenerator_remove_unreasonable_data(
                  @, AwayWindows[g.window].local_end, g.tz)]

\* the loop returns, the window's list is trimmed, and value goes on to the
\* evening window or formats the entries and returns
RemoveUnreasonableData ==
    /\ away.pc = "loop"
    /\ ~away.z
    /\ away.remain_time <= MinRemainTime
    /\ away' = IF away.window < Len(AwayWindows)
               THEN AwayModeGenerator_calculate_away_mode(AwayTrimmed(away), away.window + 1)
               ELSE [AwayTrimmed(away) EXCEPT
                        !.pc = "done",
                        !.value = AwayModeGenerator_value(AwayTrimmed(away).arrayList)]
    /\ UNCHANGED <<prop, valres, ext, resp, client, call, wire, rec, vmap>>

NextAway == CalculateAwayMode \/ Randomize \/ RemoveUnreasonableData

SpecAway == InitAway /\ [][NextAway]_vars

\* value is one uninterrupted call: every step it can take is taken
SpecAwayFair == SpecAway /\ WF_vars(NextAway)

\* C29: AwayModeGenerator.value terminates for every sequence of random draws
\* and returns a finite schedule.
C29_ValueTerminates == <>(away.pc = "done")

C29_Witness ==
    /\ away.pc = "done"
    /\ Len(away.value) >= 6
    /\ Len(away.value) < MaxSchedule

AwayLocal(g, i) == g.arrayList[i] + g.tz

AwayInWindow(g, i, w) ==
    /\ AwayWindows[w].local_start <= AwayLocal(g, i)
    /\ AwayLocal(g, i) <= AwayWindows[w].local_end

\* C30: in every returned schedule each switch-on entry is immediately
\* followed by a later switch-off entry within the same window (06:00-09:00
\* or 18:00-23:00), so the schedule never ends with the device on and no entry
\* falls outside its window.
C30_PairsWithinWindow ==
    away.pc = "done" =>
        /\ Len(away.value) % 2 = 0
        /\ \A i \in 1..Len(away.value) :
              away.value[i].bit = 1 =>
                 /\ i < Len(away.value)
                 /\ away.value[i + 1].bit = 0
                 /\ away.arrayList[i] < away.arrayList[i + 1]
                 /\ \E w \in 1..Len(AwayWindows) :
                       AwayInWindow(away, i, w) /\ AwayInWindow(away, i + 1, w)

====
